---- MODULE Spec2Model ----
(***************************************************************************)
(* Sequential practice matcher of MIDIFlow (App component).                *)
(*                                                                         *)
(* The matcher is the group of React state cells currentTargetNote,        *)
(* lastPlayedNote, isCorrectNote, practiceSequence, currentNoteIndex and   *)
(* showCompletionMessage, the MIDI message handler handleMIDIMessage, the  *)
(* button handlers start/stop/reset/skip, and the setTimeout callbacks     *)
(* those handlers schedule.  A setTimeout callback is a closure: it reads  *)
(* the values the state cells had in the render that created the handler,  *)
(* not the values at the time it fires.  Pending callbacks are therefore   *)
(* kept with the values they captured.  No handler calls clearTimeout.     *)
(*                                                                         *)
(* Time is counted in ticks of 500 ms; every delay of the code is a whole  *)
(* number of ticks.  A pending callback fires when its remaining time is   *)
(* zero, and time does not pass while a callback is due.                   *)
(***************************************************************************)
EXTENDS Integers, Sequences, FiniteSets, TLC

VARIABLES
  currentTargetNote,      \* number | null | undefined
  lastPlayedNote,         \* number | null | undefined
  isCorrectNote,          \* "true" | "false" | "null"
  practiceSequence,       \* sequence of note numbers
  currentNoteIndex,       \* 0-based index into practiceSequence
  showCompletionMessage,  \* BOOLEAN, the completion signal shown to the learner
  timers,                 \* pending setTimeout callbacks, in the order they will fire
  listener,               \* the values captured by the registered message listener
  session,                \* observer: what the session begun by the last start() has seen
  wrongAt,                \* observer: the last Incorrect event, while no input has followed it
  lastOn,                 \* observer: the last in-range NoteOn of the current tick
  lastInput,              \* observer: the last input, a NoteOn or a button
  \* MIDIManager (the adapter between the platform's MIDI ports and the app)
  midiAccess,             \* BOOLEAN: access granted and not disposed
  inputs,                 \* the platform's input ports: "absent", "connected", "disconnected"
  connectedInputs,        \* ids of the ports the adapter holds as connected
  onmidimessage,          \* ids of the ports that carry the adapter's message handler
  messageListeners,       \* registered message listeners, in insertion order
  deviceListeners,        \* registered device listeners, in insertion order
  out,                    \* observer: what the last adapter operation returned and delivered
  \* MIDI file import
  track,                  \* the events of the selected track of the parsed file
  extraction,             \* what extractNotesFromArrayBuffer returned for it, once called
  \* MIDI files: decoding, the uploader and the song library
  midiFile,               \* the file handed to the decoding functions
  decoded,                \* what parseMIDIFile resolved with for it
  call,                   \* observer: the last extraction call and its outcome
  parsedFile,             \* uploader: the parsed file, or none
  originalFile,           \* uploader: the file that was parsed
  selectedTrackIndex,     \* uploader: the track chosen for the song
  uploadError,            \* uploader: the error shown, "null" when none
  midiSongs,              \* the MIDI songs of the library
  selectedSong,           \* the song selected for practice, or none
  \* Instrument range
  selectedInstrument,     \* the instrument tag chosen in the settings
  customRangeMin,         \* lowest note of the custom range
  customRangeMax,         \* highest note of the custom range
  instrumentRanges,       \* the table INSTRUMENT_RANGES of the build
  \* Fingering charts
  rendered,               \* observer: the component rendered last and what it showed
  \* MIDI preview
  previewSong,            \* the song the preview shows
  currentTrack,           \* the track the preview plays
  trackData,              \* the notes of that track, in tenths of a second
  totalDuration,          \* the end of its last note
  isPlaying,              \* state cell isPlaying
  isPlayingRef,           \* isPlayingRef.current
  currentTime,            \* state cell currentTime, the position
  pausedTimeRef,          \* pausedTimeRef.current
  elapsed,                \* performance.now() - startTimeRef.current
  scheduledNotes,         \* scheduledNotesRef.current
  deleteTimers,           \* pending callbacks that delete an id from scheduledNotes
  animationFrame,         \* BOOLEAN: an animation frame is requested
  frames,                 \* the frames run in this tenth, all within 50 ms of its start
  tones                   \* observer: the notes the last step triggered

appVars == <<currentTargetNote, lastPlayedNote, isCorrectNote, practiceSequence,
             currentNoteIndex, showCompletionMessage, timers, listener, session, wrongAt,
             lastOn, lastInput>>

adapterVars == <<midiAccess, inputs, connectedInputs, onmidimessage, messageListeners,
                 deviceListeners, out>>

importVars == <<track, extraction>>

decodeVars == <<midiFile, decoded, call>>

uploaderVars == <<parsedFile, originalFile, selectedTrackIndex, uploadError, midiSongs,
                  selectedSong>>

fileVars == <<decodeVars, uploaderVars>>

rangeVars == <<selectedInstrument, customRangeMin, customRangeMax, instrumentRanges>>

previewVars == <<previewSong, currentTrack, trackData, totalDuration, isPlaying,
                 isPlayingRef, currentTime, pausedTimeRef, elapsed, scheduledNotes,
                 deleteTimers, animationFrame, frames, tones>>

vars == <<appVars, adapterVars, importVars, fileVars, rangeVars, rendered, previewVars>>

\* What the handlers of the practice screen never touch.
outsideApp == <<adapterVars, importVars, fileVars, rangeVars, rendered,
  previewVars>>

\* What the adapter never touches.
outsideAdapter == <<appVars, importVars, fileVars, rangeVars, rendered,
  previewVars>>

\* What the file import never touches.
outsideImport == <<appVars, adapterVars, fileVars, rangeVars, rendered,
  previewVars>>

\* What the decoding functions, the uploader and the library never touch.
outsideFiles == <<appVars, adapterVars, importVars, rangeVars, rendered,
  previewVars>>

\* What rendering a fingering chart never touches.
outsideFingering == <<appVars, adapterVars, importVars, fileVars, rangeVars,
  previewVars>>

\* What the preview never touches, the library apart.
outsidePreview == <<appVars, adapterVars, importVars, fileVars, rangeVars, rendered>>

\* What the instrument settings never touch.
outsideRange == <<appVars, adapterVars, importVars, fileVars, rendered,
  previewVars>>

matcher == <<currentTargetNote, lastPlayedNote, isCorrectNote, practiceSequence,
             currentNoteIndex>>

----------------------------------------------------------------------------
(* Values *)

\* JavaScript null and undefined, kept apart from every MIDI note number.
NULL == -1
UNDEFINED == -2

\* Tin whistle range used by isInCurrentRange.
RANGE_MIN == 60
RANGE_MAX == 96

\* Delays of the code in ticks of 500 ms.
FeedbackTicks == 1      \* setTimeout(..., 500): clear the green feedback
ResetTicks == 2         \* setTimeout(..., 1000): back to idle after completion
RecoveryTicks == 2      \* setTimeout(..., 1000): auto-recovery
HideTicks == 6          \* setTimeout(..., 3000): hide the completion message

\* Bound of the model: the most callbacks pending at once, counting the
\* callbacks a pending auto-recovery schedules when it fires.
MaxTimers == 3

\* Note sequences of the songs of the library: a song without notes, one
\* note, a repeated note (as Twinkle Twinkle begins), and D4, D5, D4.
Songs == {<<>>, <<62>>, <<62, 62>>, <<62, 74, 62>>}
\* Notes the device may send: D4, its semitone neighbour, its octave D5, and
\* one note below the instrument range.
InputNotes == {62, 63, 74, 59}

\* notes[i] of JavaScript with a 0-based index: undefined outside the array.
At(notes, i) == IF i >= 0 /\ i < Len(notes) THEN notes[i + 1] ELSE UNDEFINED

----------------------------------------------------------------------------
(* Timers *)

Timer(kind, left, c) == [kind |-> kind, left |-> left, tgt |-> c.tgt, idx |-> c.idx, seq |-> c.seq]

\* The values a handler created in the current render reads.
Closure == [tgt |-> currentTargetNote, idx |-> currentNoteIndex, seq |-> practiceSequence]
NoClosure == [tgt |-> NULL, idx |-> 0, seq |-> <<>>]

\* A pending callback and the callbacks it schedules when it fires.
Weight(t) ==
  IF t.kind # "autoRecovery" THEN 1
  ELSE IF Len(t.seq) > 0 /\ t.idx < Len(t.seq) - 1 THEN 1
  ELSE 2

RECURSIVE Load(_)
Load(ts) == IF ts = <<>> THEN 0 ELSE Weight(Head(ts)) + Load(Tail(ts))

\* setTimeout: callbacks fire by due time, and in creation order when due at
\* the same time, so a new callback goes behind those due no later than it.
RECURSIVE Schedule(_, _)
Schedule(ts, t) ==
  IF ts = <<>> THEN <<t>>
  ELSE IF Head(ts).left <= t.left THEN <<Head(ts)>> \o Schedule(Tail(ts), t)
  ELSE <<t>> \o ts

IsDue(t) == t.left = 0
Age(ts) == [i \in 1..Len(ts) |-> [ts[i] EXCEPT !.left = @ - 1]]

----------------------------------------------------------------------------
(* Observers.  They record inputs and signals; no handler reads them. *)

NoSession == [seq |-> <<>>, fed |-> 0, clean |-> FALSE, emitted |-> FALSE, alive |-> FALSE]
NoWrong == [idx |-> NULL, seq |-> <<>>, age |-> 0, done |-> FALSE]

\* The session saw something other than its correct notes in order.
Unclean(s) == [s EXCEPT !.seq = <<>>, !.fed = 0, !.clean = FALSE]

\* The session saw note k: clean sessions count the correct notes fed in order.
Fed(s, k) ==
  IF s.clean /\ k = At(s.seq, s.fed)
  THEN [s EXCEPT !.fed = @ + 1]
  ELSE Unclean(s)

\* The pending auto-recovery that the Incorrect event w scheduled.
RecoveryOf(t, w) ==
  /\ w # NoWrong /\ ~w.done
  /\ t.kind = "autoRecovery" /\ t.idx = w.idx /\ t.seq = w.seq
  /\ t.left = RecoveryTicks - w.age

\* The completion signal was emitted.
Emitted(s) == [s EXCEPT !.emitted = TRUE]

----------------------------------------------------------------------------
(* The matcher *)

\* The instrument tags of the settings; every tag but custom has an entry in
\* the table INSTRUMENT_RANGES.
StandardInstruments ==
  {"tin-whistle", "flute", "violin", "guitar", "saxophone", "full-keyboard"}
InstrumentTypes == StandardInstruments \cup {"custom"}

Range(min, max) == [MIN |-> min, MAX |-> max]
TinWhistleRange == Range(RANGE_MIN, RANGE_MAX)

getCurrentInstrumentRange ==
  IF selectedInstrument = "custom" THEN Range(customRangeMin, customRangeMax)
  ELSE instrumentRanges[selectedInstrument]

\* Variant: the bounds of the range are excluded.
InRangeExclusive(noteNumber) ==
  LET range == getCurrentInstrumentRange
  IN noteNumber > range.MIN /\ noteNumber < range.MAX

\* Variant: every note is taken to be in range.
InAnyRange(noteNumber) == TRUE

\* isInCurrentRange
InCurrentRange(noteNumber) ==
  LET range == getCurrentInstrumentRange
  IN noteNumber >= range.MIN /\ noteNumber <= range.MAX

\* Variant: octave-equivalent notes match.
IsCorrectOctaveFolded(note, target) == note % 12 = target % 12

IsCorrect(note, target) == note = target

IsLastIndex(c) == ~(Len(c.seq) > 0 /\ c.idx < Len(c.seq) - 1) /\ c.idx >= Len(c.seq) - 1

\* Variant: the success path stays at the captured index.
NextIndexStuck(c) == c.idx

NextIndex(c) == c.idx + 1

\* showPracticeCompletion, then the reset to idle one second later.
ScheduleCompletion(pending) ==
  Schedule(Schedule(pending, Timer("hideCompletion", HideTicks, NoClosure)),
           Timer("resetIdle", ResetTicks, NoClosure))

\* The success branch, run on the values c the handler captured; pending are
\* the callbacks that stay scheduled.
SuccessBranch(c, pending) ==
  IF Len(c.seq) > 0 /\ c.idx < Len(c.seq) - 1
  THEN /\ currentNoteIndex' = NextIndex(c)
       /\ currentTargetNote' = At(c.seq, NextIndex(c))
       /\ timers' = Schedule(pending, Timer("clearFeedback", FeedbackTicks, NoClosure))
       /\ UNCHANGED <<practiceSequence, showCompletionMessage>>
  ELSE IF c.idx >= Len(c.seq) - 1
  THEN /\ showCompletionMessage' = TRUE
       /\ timers' = ScheduleCompletion(pending)
       /\ UNCHANGED <<currentNoteIndex, currentTargetNote, practiceSequence>>
  ELSE /\ timers' = pending
       /\ UNCHANGED <<currentNoteIndex, currentTargetNote, practiceSequence,
                      showCompletionMessage>>

\* The incorrect branch: schedule the auto-recovery with the captured values.
IncorrectBranch(c) ==
  /\ timers' = Schedule(timers, Timer("autoRecovery", RecoveryTicks, c))
  /\ UNCHANGED <<currentNoteIndex, currentTargetNote, practiceSequence,
                 showCompletionMessage>>

\* Variant: the practice logic also runs without a target.
AwaitingAlways(c) == TRUE

\* Is the handler with captured values c in the sequential practice logic?
Awaiting(c) == selectedInstrument = "tin-whistle" /\ c.tgt # NULL

handleMIDIMessage(c, note) ==
  IF InCurrentRange(note)
  THEN /\ lastPlayedNote' = note
       /\ IF Awaiting(c)
          THEN IF IsCorrect(note, c.tgt)
               THEN isCorrectNote' = "true" /\ SuccessBranch(c, timers)
               ELSE isCorrectNote' = "false" /\ IncorrectBranch(c)
          ELSE UNCHANGED <<isCorrectNote, currentNoteIndex, currentTargetNote,
                           practiceSequence, showCompletionMessage, timers>>
  ELSE UNCHANGED <<matcher, showCompletionMessage, timers>>

\* Callbacks the message may add, counting what an auto-recovery adds later.
Demand(c, note) ==
  IF ~(InCurrentRange(note) /\ Awaiting(c)) THEN 0
  ELSE IF IsCorrect(note, c.tgt) /\ ~IsLastIndex(c) THEN 1
  ELSE 2

\* The handler registered with captured values c runs on a NoteOn.
Received(c, note) ==
  /\ handleMIDIMessage(c, note)
  /\ session' = LET s == Fed(session, note)
                IN IF InCurrentRange(note) /\ Awaiting(c)
                      /\ IsCorrect(note, c.tgt) /\ IsLastIndex(c)
                   THEN Emitted(s) ELSE s
  /\ wrongAt' = IF InCurrentRange(note) /\ Awaiting(c)
                   /\ ~IsCorrect(note, c.tgt)
                THEN [idx |-> c.idx, seq |-> c.seq, age |-> 0, done |-> FALSE]
                ELSE NoWrong
  /\ lastOn' = IF InCurrentRange(note) THEN note ELSE lastOn
  /\ lastInput' = "noteon"
  /\ UNCHANGED outsideApp

\* The handler registered with captured values c receives a NoteOn.
Receive(c, note) ==
  /\ Load(timers) + Demand(c, note) <= MaxTimers
  /\ Received(c, note)

\* The component has rendered and its effect has registered a handler that
\* captures the new state.
Rendered == listener' = [tgt |-> currentTargetNote', idx |-> currentNoteIndex',
                         seq |-> practiceSequence']

\* A NoteOn is handled and the component renders before anything else happens.
NoteOn(note) ==
  /\ Receive(listener, note)
  /\ Rendered

\* The most callbacks pending at once when the last note is repeated.
MaxRepeatTimers == 4

\* A NoteOn is handled while up to MaxRepeatTimers callbacks are pending.
RepeatedNoteOn(note) ==
  /\ Load(timers) + Demand(listener, note) <= MaxRepeatTimers
  /\ Received(listener, note)
  /\ Rendered

\* A NoteOn is handled while the render that follows is still pending.
LateNoteOn(note) ==
  /\ Receive(listener, note)
  /\ UNCHANGED listener

\* The pending render and its effect run.
Rerender ==
  /\ listener # Closure
  /\ listener' = Closure
  /\ UNCHANGED <<matcher, showCompletionMessage, timers, session, wrongAt, lastOn,
                 lastInput>>
  /\ UNCHANGED outsideApp

startPracticeSequence(notes) ==
  /\ practiceSequence' = notes
  /\ currentNoteIndex' = 0
  /\ currentTargetNote' = At(notes, 0)
  /\ isCorrectNote' = "null"
  /\ lastPlayedNote' = NULL
  /\ UNCHANGED <<showCompletionMessage, timers>>

StartPractice(notes) ==
  /\ startPracticeSequence(notes)
  /\ session' = [seq |-> notes, fed |-> 0, clean |-> TRUE, emitted |-> FALSE,
                  alive |-> TRUE]
  /\ wrongAt' = NoWrong
  /\ lastOn' = NULL
  /\ lastInput' = "start"
  /\ Rendered
  /\ UNCHANGED outsideApp

stopPracticeSequence ==
  /\ practiceSequence' = <<>>
  /\ currentNoteIndex' = 0
  /\ currentTargetNote' = NULL
  /\ isCorrectNote' = "null"
  /\ lastPlayedNote' = NULL
  /\ UNCHANGED <<showCompletionMessage, timers>>

StopPractice ==
  /\ stopPracticeSequence
  /\ session' = NoSession
  /\ wrongAt' = NoWrong
  /\ lastOn' = NULL
  /\ lastInput' = "stop"
  /\ Rendered
  /\ UNCHANGED outsideApp

\* Variant: reset goes back to index 0 but keeps the feedback.
resetKeepingFeedback ==
  IF Len(practiceSequence) > 0
  THEN /\ currentNoteIndex' = 0
       /\ currentTargetNote' = At(practiceSequence, 0)
       /\ UNCHANGED <<isCorrectNote, lastPlayedNote, practiceSequence,
                      showCompletionMessage, timers>>
  ELSE UNCHANGED <<matcher, showCompletionMessage, timers>>

resetPracticeSequence ==
  IF Len(practiceSequence) > 0
  THEN /\ currentNoteIndex' = 0
       /\ currentTargetNote' = At(practiceSequence, 0)
       /\ isCorrectNote' = "null"
       /\ lastPlayedNote' = NULL
       /\ UNCHANGED <<practiceSequence, showCompletionMessage, timers>>
  ELSE UNCHANGED <<matcher, showCompletionMessage, timers>>

ResetPractice ==
  /\ resetPracticeSequence
  /\ session' = Unclean(session)
  /\ wrongAt' = NoWrong
  /\ lastOn' = NULL
  /\ lastInput' = "reset"
  /\ Rendered
  /\ UNCHANGED outsideApp

\* Variant: skip at the last index runs the completion handling.
skipCompleting ==
  IF Len(practiceSequence) > 0 /\ currentNoteIndex < Len(practiceSequence) - 1
  THEN /\ currentNoteIndex' = currentNoteIndex + 1
       /\ currentTargetNote' = At(practiceSequence, currentNoteIndex + 1)
       /\ isCorrectNote' = "null"
       /\ UNCHANGED <<practiceSequence, lastPlayedNote, showCompletionMessage, timers>>
  ELSE /\ showCompletionMessage' = TRUE
       /\ timers' = ScheduleCompletion(timers)
       /\ UNCHANGED matcher

skipToNextNote ==
  IF Len(practiceSequence) > 0 /\ currentNoteIndex < Len(practiceSequence) - 1
  THEN /\ currentNoteIndex' = currentNoteIndex + 1
       /\ currentTargetNote' = At(practiceSequence, currentNoteIndex + 1)
       /\ isCorrectNote' = "null"
       /\ UNCHANGED <<practiceSequence, lastPlayedNote, showCompletionMessage, timers>>
  ELSE UNCHANGED <<matcher, showCompletionMessage, timers>>

SkipNote ==
  /\ skipToNextNote
  /\ session' = Unclean(session)
  /\ wrongAt' = NoWrong
  /\ lastOn' = NULL
  /\ lastInput' = "skip"
  /\ Rendered
  /\ UNCHANGED outsideApp

----------------------------------------------------------------------------
(* setTimeout callbacks *)

clearFeedback(pending) ==
  /\ isCorrectNote' = "null"
  /\ timers' = pending
  /\ UNCHANGED <<currentTargetNote, lastPlayedNote, practiceSequence, currentNoteIndex,
                 showCompletionMessage>>

\* Variant: the post-completion callback keeps the finished sequence.
resetIdleKeepingSequence(pending) ==
  /\ isCorrectNote' = "null"
  /\ currentTargetNote' = NULL
  /\ currentNoteIndex' = 0
  /\ timers' = pending
  /\ UNCHANGED <<practiceSequence, lastPlayedNote, showCompletionMessage>>

resetIdle(pending) ==
  /\ isCorrectNote' = "null"
  /\ currentTargetNote' = NULL
  /\ currentNoteIndex' = 0
  /\ practiceSequence' = <<>>
  /\ timers' = pending
  /\ UNCHANGED <<lastPlayedNote, showCompletionMessage>>

hideCompletion(pending) ==
  /\ showCompletionMessage' = FALSE
  /\ timers' = pending
  /\ UNCHANGED matcher

autoRecovery(c, pending) ==
  /\ lastPlayedNote' = c.tgt
  /\ isCorrectNote' = "true"
  /\ SuccessBranch(c, pending)

\* Is a callback due?  The event loop runs the first one.
Due == timers # <<>> /\ IsDue(Head(timers))

Fire(t, pending) ==
  CASE t.kind = "clearFeedback" -> clearFeedback(pending)
    [] t.kind = "resetIdle" -> resetIdle(pending)
    [] t.kind = "hideCompletion" -> hideCompletion(pending)
    [] t.kind = "autoRecovery" -> autoRecovery(t, pending)

\* The first due callback runs.
RunCallback ==
  /\ Due
  /\ Fire(Head(timers), Tail(timers))
  /\ session' = IF Head(timers).kind = "autoRecovery" /\ IsLastIndex(Head(timers))
                THEN Emitted(session) ELSE session
  /\ wrongAt' = IF RecoveryOf(Head(timers), wrongAt)
                THEN [wrongAt EXCEPT !.done = TRUE] ELSE wrongAt
  /\ UNCHANGED <<lastOn, lastInput>>
  /\ UNCHANGED outsideApp

\* A callback runs and the component renders before anything else happens.
FireTimer ==
  /\ RunCallback
  /\ Rendered

\* A callback runs while the render that follows is still pending.
LateFireTimer ==
  /\ RunCallback
  /\ UNCHANGED listener

\* 500 ms pass; nothing is due.
Tick ==
  /\ ~Due
  /\ timers' = Age(timers)
  /\ wrongAt' = IF wrongAt = NoWrong \/ wrongAt.age >= RecoveryTicks THEN NoWrong
                ELSE [wrongAt EXCEPT !.age = @ + 1]
  /\ lastOn' = NULL
  /\ UNCHANGED <<matcher, showCompletionMessage, session, lastInput>>
  /\ Rendered
  /\ UNCHANGED outsideApp

----------------------------------------------------------------------------
(* MIDIManager: ports, listeners, message parsing *)

Ports == {1, 2}
\* Iteration order of the platform's input map.
PortOrder == <<1, 2>>

MessageListenerIds == {"m1", "m2"}
DeviceListenerIds == {"d1", "d2"}
\* Listeners whose callback throws.
Throwing == {"m1", "d1"}

NOTE_ON_STATUS == 144    \* 0x90
NOTE_OFF_STATUS == 128   \* 0x80

\* Raw messages the platform delivers: note on/off on several channels,
\* note on with velocity 0, aftertouch, control change, program change,
\* channel pressure, pitch bend, sysex, timing clock, and no data at all.
RawMessages ==
  { <<144, 62, 100>>, <<147, 74, 1>>, <<145, 62, 0>>, <<128, 62, 64>>,
    <<143, 74, 0>>, <<160, 62, 10>>, <<176, 7, 100>>, <<192, 5>>, <<208, 5>>,
    <<224, 0, 64>>, <<240, 1, 2, 3, 247>>, <<248>>, <<>> }

\* status & 0xF0
HighNibble(status) == status - (status % 16)

NoMessage == [type |-> "none", note |-> 0, velocity |-> 0]

\* Variant: every 0x9n message is a note on, whatever its velocity.
ParseIgnoringVelocity(data) ==
  IF Len(data) < 3 THEN NoMessage
  ELSE IF HighNibble(data[1]) = NOTE_ON_STATUS
  THEN [type |-> "noteon", note |-> data[2], velocity |-> data[3]]
  ELSE IF HighNibble(data[1]) = NOTE_OFF_STATUS
  THEN [type |-> "noteoff", note |-> data[2], velocity |-> data[3]]
  ELSE NoMessage

\* The message built from the event data, if any.
ParseMessage(data) ==
  IF Len(data) < 3 THEN NoMessage
  ELSE LET status == data[1]
           note == data[2]
           velocity == data[3]
       IN IF HighNibble(status) = NOTE_ON_STATUS /\ velocity > 0
          THEN [type |-> "noteon", note |-> note, velocity |-> velocity]
          ELSE IF HighNibble(status) = NOTE_OFF_STATUS
                  \/ (HighNibble(status) = NOTE_ON_STATUS /\ velocity = 0)
          THEN [type |-> "noteoff", note |-> note, velocity |-> velocity]
          ELSE NoMessage

\* Variant: listeners.forEach(listener => listener(payload)) without try/catch:
\* the first exception ends the loop and leaves the adapter.
RECURSIVE ForEachUnguarded(_, _)
ForEachUnguarded(ls, payload) ==
  IF ls = <<>> THEN [calls |-> <<>>, escaped |-> FALSE]
  ELSE IF Head(ls) \in Throwing
  THEN [calls |-> <<[to |-> Head(ls), got |-> payload]>>, escaped |-> TRUE]
  ELSE LET rest == ForEachUnguarded(Tail(ls), payload)
       IN [calls |-> <<[to |-> Head(ls), got |-> payload]>> \o rest.calls,
           escaped |-> rest.escaped]

\* listeners.forEach(listener => { try { listener(payload) } catch { log } }):
\* the calls made, and whether an exception left the loop.
RECURSIVE ForEachListener(_, _)
ForEachListener(ls, payload) ==
  IF ls = <<>> THEN [calls |-> <<>>, escaped |-> FALSE]
  ELSE LET rest == ForEachListener(Tail(ls), payload)
       IN [calls |-> <<[to |-> Head(ls), got |-> payload]>> \o rest.calls,
           escaped |-> rest.escaped]

\* getAvailableDevices(): the listed input ports with their state.
DeviceList(access, ins) ==
  IF access THEN [p \in {q \in Ports : ins[q] # "absent"} |-> ins[p]]
  ELSE [p \in {} |-> "absent"]

\* The adapter's own fields during one operation, with what it delivered to
\* device listeners and returned so far.
Adapter(access) ==
  [access |-> access, conn |-> connectedInputs, hand |-> onmidimessage,
   devs |-> <<>>, escaped |-> FALSE, ret |-> "void"]

notifyDeviceListeners(a, ins) ==
  LET r == ForEachListener(deviceListeners, DeviceList(a.access, ins))
  IN [a EXCEPT !.devs = @ \o r.calls, !.escaped = @ \/ r.escaped]

connectToDevice(a, id, ins) ==
  IF ~a.access THEN [a EXCEPT !.ret = "false"]
  ELSE IF ins[id] = "absent" THEN [a EXCEPT !.ret = "false"]
  ELSE [notifyDeviceListeners([a EXCEPT !.hand = @ \cup {id}, !.conn = @ \cup {id}], ins)
          EXCEPT !.ret = "true"]

disconnectFromDevice(a, id, ins) ==
  IF id \in a.conn
  THEN notifyDeviceListeners([a EXCEPT !.hand = @ \ {id}, !.conn = @ \ {id}], ins)
  ELSE a

\* Variant: a state change only re-emits the device list.
stateChangeNotifyOnly(a, port, kind, state, ins) ==
  [notifyDeviceListeners(a, ins) EXCEPT !.ret = "void"]

handleDeviceStateChange(a, port, kind, state, ins) ==
  LET b == IF kind = "input"
           THEN IF state = "connected" THEN connectToDevice(a, port, ins)
                ELSE IF state = "disconnected" THEN disconnectFromDevice(a, port, ins)
                ELSE a
           ELSE a
  IN [notifyDeviceListeners(b, ins) EXCEPT !.ret = "void"]

\* connectToAvailableDevices(): every listed port in state connected, in map order.
RECURSIVE connectToAvailableDevices(_, _, _)
connectToAvailableDevices(a, ps, ins) ==
  IF ps = <<>> THEN a
  ELSE connectToAvailableDevices(
         IF ins[Head(ps)] = "connected" THEN connectToDevice(a, Head(ps), ins) ELSE a,
         Tail(ps), ins)

\* dispose(): connectedInputs.forEach(disconnectFromDevice)
RECURSIVE disconnectAll(_, _, _)
disconnectAll(a, ps, ins) ==
  IF ps = <<>> THEN a
  ELSE disconnectAll(disconnectFromDevice(a, Head(ps), ins), Tail(ps), ins)

\* Set.add / Set.delete on a set kept in insertion order.
Added(ls, l) == IF \E i \in 1..Len(ls) : ls[i] = l THEN ls ELSE Append(ls, l)
Deleted(ls, l) == SelectSeq(ls, LAMBDA x : x # l)

NoOut == [op |-> "none", port |-> 0, ret |-> "void", messages |-> <<>>, devices |-> <<>>,
          escaped |-> FALSE]

\* The adapter's fields after an operation that ended in a, and what it did.
Done(op, port, a, messages) ==
  /\ connectedInputs' = a.conn
  /\ onmidimessage' = a.hand
  /\ out' = [op |-> op, port |-> port, ret |-> a.ret, messages |-> messages,
             devices |-> a.devs, escaped |-> a.escaped]

\* initialize(): access is granted or refused by the platform.
Initialize(granted) ==
  /\ ~midiAccess
  /\ midiAccess' = granted
  /\ LET a == IF granted
              THEN [connectToAvailableDevices(Adapter(TRUE), PortOrder, inputs)
                      EXCEPT !.ret = "true"]
              ELSE [Adapter(FALSE) EXCEPT !.ret = "false"]
     IN Done("initialize", 0, a, <<>>)
  /\ UNCHANGED <<inputs, messageListeners, deviceListeners, outsideAdapter>>

Dispose ==
  /\ midiAccess' = FALSE
  /\ messageListeners' = <<>>
  /\ deviceListeners' = <<>>
  /\ Done("dispose", 0, disconnectAll(Adapter(midiAccess), PortOrder, inputs), <<>>)
  /\ UNCHANGED <<inputs, outsideAdapter>>

Connect(id) ==
  /\ Done("connect", id, connectToDevice(Adapter(midiAccess), id, inputs), <<>>)
  /\ UNCHANGED <<midiAccess, inputs, messageListeners, deviceListeners, outsideAdapter>>

Disconnect(id) ==
  /\ Done("disconnect", id, disconnectFromDevice(Adapter(midiAccess), id, inputs), <<>>)
  /\ UNCHANGED <<midiAccess, inputs, messageListeners, deviceListeners, outsideAdapter>>

\* The platform reports a state change of an input port: the port is plugged
\* in or opened (connected), or unplugged (disconnected, and then either still
\* listed or gone from the input map).
InputStateChange(port, state, listed) ==
  /\ state = "disconnected" => inputs[port] = "connected"
  /\ inputs' = [inputs EXCEPT ![port] = IF state = "connected" THEN "connected"
                                        ELSE IF listed THEN "disconnected" ELSE "absent"]
  /\ IF midiAccess
     THEN Done(state, port,
               handleDeviceStateChange(Adapter(TRUE), port, "input", state, inputs'), <<>>)
     ELSE UNCHANGED <<connectedInputs, onmidimessage, out>>
  /\ UNCHANGED <<midiAccess, messageListeners, deviceListeners, outsideAdapter>>

\* The platform reports a state change of an output port.
OutputStateChange(state) ==
  /\ midiAccess
  /\ Done("output", 0,
          handleDeviceStateChange(Adapter(TRUE), 0, "output", state, inputs), <<>>)
  /\ UNCHANGED <<midiAccess, inputs, messageListeners, deviceListeners, outsideAdapter>>

\* A port that carries the handler delivers a raw message.
RawMessage(port, data) ==
  /\ port \in onmidimessage
  /\ inputs[port] = "connected"
  /\ LET message == ParseMessage(data)
         r == IF message = NoMessage THEN [calls |-> <<>>, escaped |-> FALSE]
              ELSE ForEachListener(messageListeners, message)
     IN out' = [op |-> "message", port |-> port, ret |-> "void", messages |-> r.calls,
                devices |-> <<>>, escaped |-> r.escaped]
  /\ UNCHANGED <<midiAccess, inputs, connectedInputs, onmidimessage, messageListeners,
                 deviceListeners, outsideAdapter>>

addMessageListener(l) ==
  /\ messageListeners' = Added(messageListeners, l)
  /\ UNCHANGED <<midiAccess, inputs, connectedInputs, onmidimessage, deviceListeners, out,
                 outsideAdapter>>

removeMessageListener(l) ==
  /\ messageListeners' = Deleted(messageListeners, l)
  /\ UNCHANGED <<midiAccess, inputs, connectedInputs, onmidimessage, deviceListeners, out,
                 outsideAdapter>>

addDeviceListener(l) ==
  /\ deviceListeners' = Added(deviceListeners, l)
  /\ UNCHANGED <<midiAccess, inputs, connectedInputs, onmidimessage, messageListeners, out,
                 outsideAdapter>>

removeDeviceListener(l) ==
  /\ deviceListeners' = Deleted(deviceListeners, l)
  /\ UNCHANGED <<midiAccess, inputs, connectedInputs, onmidimessage, messageListeners, out,
                 outsideAdapter>>

\* A new MIDIManager, before any port is reported.
AdapterInit ==
  /\ midiAccess = FALSE
  /\ inputs = [p \in Ports |-> "absent"]
  /\ connectedInputs = {}
  /\ onmidimessage = {}
  /\ messageListeners = <<>>
  /\ deviceListeners = <<>>
  /\ out = NoOut

----------------------------------------------------------------------------
(* MIDI file import: extracting the notes of a track *)

TicksPerBeat == 480          \* midiData.ticksPerBeat || 480
DEFAULT_TEMPO == 120         \* let tempo = 120
HANGING_DURATION == 1        \* const duration = 0.5 (beats), counted in half beats
MICROSECONDS_PER_MINUTE == 60000000

\* Longest track examined.
MaxEvents == 4

\* Delta times of the events, in ticks.
Deltas == {0, 480}

NoteOnEvent(note, velocity, deltaTime) ==
  [type |-> 9, metaType |-> 0, note |-> note, velocity |-> velocity, us |-> 0,
   deltaTime |-> deltaTime]
NoteOffEvent(note, deltaTime) ==
  [type |-> 8, metaType |-> 0, note |-> note, velocity |-> 0, us |-> 0,
   deltaTime |-> deltaTime]
\* Set Tempo, with the microseconds per beat its three data bytes encode.
TempoEvent(us, deltaTime) ==
  [type |-> 255, metaType |-> 81, note |-> 0, velocity |-> 0, us |-> us,
   deltaTime |-> deltaTime]

Events ==
  UNION { { NoteOnEvent(62, 100, d), NoteOnEvent(74, 100, d), NoteOnEvent(62, 0, d),
            NoteOffEvent(62, d), NoteOffEvent(74, d), TempoEvent(666667, d) } : d \in Deltas }

Tracks == UNION { [1..n -> Events] : n \in 0..MaxEvents }

\* Beat quantities are counted in half beats: ticks / ticksPerBeat, doubled.
InHalfBeats(ticks) == (2 * ticks) \div TicksPerBeat

\* Math.round(60000000 / microsecondsPerBeat)
TempoOf(us) == (2 * MICROSECONDS_PER_MINUTE + us) \div (2 * us)

\* First pass: the last Set Tempo event of the track decides.
RECURSIVE FindTempo(_, _)
FindTempo(events, tempo) ==
  IF events = <<>> THEN tempo
  ELSE FindTempo(Tail(events),
                 IF Head(events).type = 255 /\ Head(events).metaType = 81
                 THEN TempoOf(Head(events).us) ELSE tempo)

\* noteOnEvents: a Map from note number to the tick of its note on, in
\* insertion order.
MapHas(m, k) == \E i \in 1..Len(m) : m[i].note = k
MapGet(m, k) == m[CHOOSE i \in 1..Len(m) : m[i].note = k].tick
MapSet(m, k, tick) ==
  IF MapHas(m, k)
  THEN [i \in 1..Len(m) |-> IF m[i].note = k THEN [note |-> k, tick |-> tick] ELSE m[i]]
  ELSE Append(m, [note |-> k, tick |-> tick])
MapDelete(m, k) == SelectSeq(m, LAMBDA x : x.note # k)

\* Variant: the duration of a note is measured from the start of the track.
DurationFromStart(onTick, offTick) == InHalfBeats(offTick)

\* (currentTick - noteOn.tick) / ticksPerBeat
Duration(onTick, offTick) == InHalfBeats(offTick - onTick)

TimedNote(note, onTick, duration) ==
  [note |-> note, startTime |-> InHalfBeats(onTick), duration |-> duration]

\* A note off, or a note on with velocity 0, for noteNumber.
EndNote(d, noteNumber) ==
  IF MapHas(d.noteOnEvents, noteNumber)
  THEN LET onTick == MapGet(d.noteOnEvents, noteNumber)
       IN [d EXCEPT !.notesWithTiming =
                       Append(@, TimedNote(noteNumber, onTick,
                                           Duration(onTick, d.currentTick))),
                    !.noteOnEvents = MapDelete(@, noteNumber)]
  ELSE d

\* One round of the second pass.
ReadEvent(d0, event) ==
  LET d == [d0 EXCEPT !.currentTick = @ + event.deltaTime]
  IN IF event.type = 9
     THEN IF event.velocity > 0
          THEN [d EXCEPT !.notes = Append(@, event.note),
                         !.noteOnEvents = MapSet(@, event.note, d.currentTick)]
          ELSE EndNote(d, event.note)
     ELSE IF event.type = 8 THEN EndNote(d, event.note)
     ELSE d

RECURSIVE ReadEvents(_, _)
ReadEvents(d, events) ==
  IF events = <<>> THEN d ELSE ReadEvents(ReadEvent(d, Head(events)), Tail(events))

\* The notes that never had a note off, in the order of the map.
RECURSIVE HangingNotes(_)
HangingNotes(m) ==
  IF m = <<>> THEN <<>>
  ELSE <<TimedNote(Head(m).note, Head(m).tick, HANGING_DURATION)>> \o HangingNotes(Tail(m))

\* Variant: the timed notes are returned in the order they were pushed.
AsPushed(ns) == ns

\* x placed behind every element that does not start later.
RECURSIVE InsertByStart(_, _)
InsertByStart(sorted, x) ==
  IF sorted = <<>> THEN <<x>>
  ELSE IF Head(sorted).startTime <= x.startTime
  THEN <<Head(sorted)>> \o InsertByStart(Tail(sorted), x)
  ELSE <<x>> \o sorted

\* notesWithTiming.sort((a, b) => a.startTime - b.startTime), a stable sort.
RECURSIVE SortByStart(_)
SortByStart(ns) ==
  IF ns = <<>> THEN <<>>
  ELSE InsertByStart(SortByStart(SubSeq(ns, 1, Len(ns) - 1)), ns[Len(ns)])

NotExtracted == [done |-> FALSE, notes |-> <<>>, tempo |-> 0, notesWithTiming |-> <<>>]

extractNotesFromArrayBuffer(events) ==
  LET d == ReadEvents([currentTick |-> 0, notes |-> <<>>, notesWithTiming |-> <<>>,
                       noteOnEvents |-> <<>>], events)
  IN [done |-> TRUE,
      notes |-> d.notes,
      tempo |-> FindTempo(events, DEFAULT_TEMPO),
      notesWithTiming |-> SortByStart(d.notesWithTiming \o HangingNotes(d.noteOnEvents))]

\* The notes of the track are extracted.
Extract ==
  /\ ~extraction.done
  /\ extraction' = extractNotesFromArrayBuffer(track)
  /\ UNCHANGED <<track, outsideImport>>

\* No file has been imported.
ImportInit ==
  /\ track = <<>>
  /\ extraction = NotExtracted

----------------------------------------------------------------------------
(* MIDI files: decoding, the uploader and the song library *)

\* Most events in a track of a decoded file.
MaxTrackEvents == 2
\* Most songs in the library.
MaxSongs == 2

\* Track counts of the decoded files, and the track indexes passed to the
\* extraction functions.
TrackCounts == {1, 2}
TrackIndexes == {-1, 0, 1, 2, 5}

FileEvents ==
  {NoteOnEvent(62, 100, 480)}
    \cup { TempoEvent(us, d) : us \in {666667, 1000000}, d \in Deltas }

FileTracks == UNION { [1..n -> FileEvents] : n \in 0..MaxTrackEvents }

\* What MidiParser.parse makes of the bytes: the tracks of the file, or
\* nothing the functions can read (bytes that are no MIDI file, or no bytes).
MidiData(tracks) == [readable |-> TRUE, track |-> tracks]
NoMidiData == [readable |-> FALSE, track |-> <<>>]

Files ==
  {NoMidiData}
    \cup { MidiData(t) : t \in UNION { [1..n -> FileTracks] : n \in TrackCounts } }

IsSetTempo(event) == event.type = 255 /\ event.metaType = 81

\* The events of all tracks, track after track.
RECURSIVE Concat(_)
Concat(tracks) == IF tracks = <<>> THEN <<>> ELSE Head(tracks) \o Concat(Tail(tracks))

\* tempoChanges.push({ tick: event.deltaTime, bpm }) for every Set Tempo event.
RECURSIVE TempoChanges(_)
TempoChanges(events) ==
  IF events = <<>> THEN <<>>
  ELSE (IF IsSetTempo(Head(events))
        THEN <<[tick |-> Head(events).deltaTime, bpm |-> TempoOf(Head(events).us)]>>
        ELSE <<>>) \o TempoChanges(Tail(events))

\* track.event.reduce((max, event) => Math.max(max, event.deltaTime), 0)
RECURSIVE MaxDeltaTime(_, _)
MaxDeltaTime(events, max) ==
  IF events = <<>> THEN max
  ELSE MaxDeltaTime(Tail(events),
                    IF Head(events).deltaTime > max THEN Head(events).deltaTime ELSE max)

\* Math.max(...values) of a non-empty list.
Maximum(values) == CHOOSE x \in values : \A y \in values : y <= x

\* The note on events with a velocity above 0.
NoteCount(events) == Len(SelectSeq(events, LAMBDA e : e.type = 9 /\ e.velocity > 0))

MIDITrackInfo(tracks) ==
  [i \in 1..Len(tracks) |-> [trackIndex |-> i - 1, noteCount |-> NoteCount(tracks[i])]]

\* No parsed file: null in the uploader, a rejected promise in parseMIDIFile.
\* durationInSeconds is kept as the fraction num / den.
NotParsed ==
  [ok |-> FALSE, tracks |-> <<>>, ticksPerBeat |-> 0, tempoChanges |-> <<>>,
   totalTicks |-> 0, durationInSeconds |-> [num |-> 0, den |-> 1]]

parseMIDIFile(file) ==
  IF ~file.readable THEN NotParsed
  ELSE LET found == TempoChanges(Concat(file.track))
           defaultTempo == IF found = <<>> THEN DEFAULT_TEMPO ELSE found[1].bpm
           totalTicks ==
             Maximum({ MaxDeltaTime(file.track[i], 0) : i \in 1..Len(file.track) })
       IN [ok |-> TRUE,
           tracks |-> MIDITrackInfo(file.track),
           ticksPerBeat |-> TicksPerBeat,
           tempoChanges |-> IF found = <<>> THEN <<[tick |-> 0, bpm |-> defaultTempo]>>
                            ELSE found,
           totalTicks |-> totalTicks,
           durationInSeconds |-> [num |-> totalTicks * 60,
                                  den |-> TicksPerBeat * defaultTempo]]

\* What an extraction returns or throws.  timed tells notesWithTiming from
\* undefined.
Failed(message) ==
  [error |-> message, notes |-> <<>>, tempo |-> 0, notesWithTiming |-> <<>>,
   timed |-> FALSE]
Extracted(notes, tempo, notesWithTiming, timed) ==
  [error |-> "none", notes |-> notes, tempo |-> tempo,
   notesWithTiming |-> notesWithTiming, timed |-> timed]

\* extractNotesFromArrayBuffer, from the bytes of the file.  A negative index
\* passes the length test, midiData.track[trackIndex] is undefined and reading
\* its events throws a TypeError.
ExtractFromArrayBuffer(fileData, trackIndex) ==
  IF ~fileData.readable THEN Failed("NotAMidiFile")
  ELSE IF trackIndex >= Len(fileData.track) THEN Failed("TrackIndexNotFound")
  ELSE IF trackIndex < 0 THEN Failed("TypeError")
  ELSE LET r == extractNotesFromArrayBuffer(fileData.track[trackIndex + 1])
       IN Extracted(r.notes, r.tempo, r.notesWithTiming, TRUE)

\* extractNotesFromTrack, from the file: the tempo is looked for in all tracks,
\* and every exception is rejected as a failure to extract.
extractNotesFromTrack(file, trackIndex) ==
  IF ~file.readable THEN Failed("FailedToExtract")
  ELSE IF trackIndex >= Len(file.track) THEN Failed("TrackIndexNotFound")
  ELSE IF trackIndex < 0 THEN Failed("FailedToExtract")
  ELSE LET r == extractNotesFromArrayBuffer(file.track[trackIndex + 1])
           timing == r.notesWithTiming
       IN Extracted(IF Len(r.notes) > 0 THEN r.notes
                    ELSE [i \in 1..Len(timing) |-> timing[i].note],
                    FindTempo(Concat(file.track), DEFAULT_TEMPO),
                    timing, Len(timing) > 0)

NoCall == [fn |-> "none", trackIndex |-> 0, result |-> Failed("none")]

\* The file is decoded.
Parse ==
  /\ decoded' = parseMIDIFile(midiFile)
  /\ UNCHANGED <<midiFile, call, uploaderVars, outsideFiles>>

\* A track of the file is extracted from its bytes.
ExtractBuffer(trackIndex) ==
  /\ call' = [fn |-> "extractNotesFromArrayBuffer", trackIndex |-> trackIndex,
              result |-> ExtractFromArrayBuffer(midiFile, trackIndex)]
  /\ UNCHANGED <<midiFile, decoded, uploaderVars, outsideFiles>>

\* A track of the file is extracted from the file.
ExtractFile(trackIndex) ==
  /\ call' = [fn |-> "extractNotesFromTrack", trackIndex |-> trackIndex,
              result |-> extractNotesFromTrack(midiFile, trackIndex)]
  /\ UNCHANGED <<midiFile, decoded, uploaderVars, outsideFiles>>

DecodeInit ==
  /\ midiFile = NoMidiData
  /\ decoded = NotParsed
  /\ call = NoCall

\* The uploader and the library of MIDI songs.

\* Files the user uploads: no MIDI file, a file of one track, and a file of two
\* tracks whose second track holds more notes.
UploadFiles ==
  { NoMidiData,
    MidiData(<<  <<NoteOnEvent(62, 100, 480)>>  >>),
    MidiData(<<  <<TempoEvent(666667, 0), NoteOnEvent(62, 100, 480)>>,
                 <<NoteOnEvent(62, 100, 480), NoteOnEvent(62, 100, 480)>>  >>) }

NoSong ==
  [id |-> NULL, notes |-> <<>>, tempo |-> 0, notesWithTiming |-> <<>>, timed |-> FALSE,
   selectedTrack |-> 0, fileData |-> NoMidiData, availableTracks |-> 0]

MIDISong(id, r, selectedTrack, fileData, availableTracks) ==
  [id |-> id, notes |-> r.notes, tempo |-> r.tempo,
   notesWithTiming |-> r.notesWithTiming, timed |-> r.timed,
   selectedTrack |-> selectedTrack, fileData |-> fileData,
   availableTracks |-> availableTracks]

\* A song loaded from storage with the bytes of its file.
StoredFile ==
  MidiData(<<  <<NoteOnEvent(62, 100, 480)>>,
               <<TempoEvent(1000000, 0), NoteOnEvent(62, 100, 480)>>  >>)
StoredSong == MIDISong(0, ExtractFromArrayBuffer(StoredFile, 0), 0, StoredFile, 2)

\* tracks.reduce((best, track, index) => noteCount > tracks[best].noteCount ? index : best, 0)
RECURSIVE BestTrack(_, _, _)
BestTrack(tracks, index, best) ==
  IF index >= Len(tracks) THEN best
  ELSE BestTrack(tracks, index + 1,
                 IF tracks[index + 1].noteCount > tracks[best + 1].noteCount
                 THEN index ELSE best)

\* handleFileUpload once the file name is accepted.
upload(file, parsed) ==
  IF parsed.ok
  THEN /\ parsedFile' = parsed
       /\ originalFile' = file
       /\ selectedTrackIndex' = BestTrack(parsed.tracks, 0, 0)
       /\ uploadError' = "null"
  ELSE /\ uploadError' = "Failed to parse MIDI file"
       /\ UNCHANGED <<parsedFile, originalFile, selectedTrackIndex>>

\* handleFileUpload
Upload(file, midiName) ==
  /\ IF midiName
     THEN upload(file, parseMIDIFile(file))
     ELSE /\ uploadError' = "Please upload a MIDI file (.mid or .midi)"
          /\ UNCHANGED <<parsedFile, originalFile, selectedTrackIndex>>
  /\ UNCHANGED <<midiSongs, selectedSong, decodeVars, outsideFiles>>

\* A track of the parsed file is clicked.
SelectTrackIndex(index) ==
  /\ parsedFile.ok
  /\ index \in 0..(Len(parsedFile.tracks) - 1)
  /\ selectedTrackIndex' = index
  /\ UNCHANGED <<parsedFile, originalFile, uploadError, midiSongs, selectedSong,
                 decodeVars, outsideFiles>>

\* handleCreateSong; reads is whether the FileReader can still read the file.
handleCreateSong(r) ==
  IF r.error = "none"
  THEN /\ midiSongs' = Append(midiSongs,
                              MIDISong(Len(midiSongs) + 1, r, selectedTrackIndex,
                                       NoMidiData, Len(parsedFile.tracks)))
       /\ parsedFile' = NotParsed
       /\ originalFile' = NoMidiData
       /\ selectedTrackIndex' = 0
       /\ uploadError' = "null"
  ELSE /\ uploadError' = r.error
       /\ UNCHANGED <<midiSongs, parsedFile, originalFile, selectedTrackIndex>>

CreateSong(reads) ==
  /\ parsedFile.ok
  /\ Len(midiSongs) < MaxSongs
  /\ handleCreateSong(IF reads THEN extractNotesFromTrack(originalFile, selectedTrackIndex)
                      ELSE Failed("Failed to read MIDI file"))
  /\ UNCHANGED <<selectedSong, decodeVars, outsideFiles>>

\* A song of the library is clicked.
SelectSong(k) ==
  /\ k \in 1..Len(midiSongs)
  /\ selectedSong' = midiSongs[k]
  /\ UNCHANGED <<parsedFile, originalFile, selectedTrackIndex, uploadError, midiSongs,
                 decodeVars, outsideFiles>>

\* Variant: the selected track is recorded whether or not the extraction worked.
changeTrackRegardless(song, newTrack, r) ==
  LET updatedSong == [song EXCEPT !.selectedTrack = newTrack, !.notes = r.notes,
                                  !.tempo = r.tempo,
                                  !.notesWithTiming = r.notesWithTiming,
                                  !.timed = r.timed]
  IN /\ midiSongs' = [i \in 1..Len(midiSongs) |->
                        IF midiSongs[i].id = song.id THEN updatedSong ELSE midiSongs[i]]
     /\ selectedSong' = IF selectedSong.id = song.id THEN updatedSong ELSE selectedSong

\* onChange of the track selection of a song, with what the extraction gave.
changeTrack(song, newTrack, r) ==
  IF r.error = "none"
  THEN LET updatedSong == [song EXCEPT !.selectedTrack = newTrack, !.notes = r.notes,
                                       !.tempo = r.tempo,
                                       !.notesWithTiming = r.notesWithTiming,
                                       !.timed = r.timed]
       IN /\ midiSongs' = [i \in 1..Len(midiSongs) |->
                             IF midiSongs[i].id = song.id THEN updatedSong
                             ELSE midiSongs[i]]
          /\ selectedSong' = IF selectedSong.id = song.id THEN updatedSong
                             ELSE selectedSong
  ELSE UNCHANGED <<midiSongs, selectedSong>>

ChangeTrack(k, newTrack) ==
  /\ k \in 1..Len(midiSongs)
  /\ newTrack \in 0..(midiSongs[k].availableTracks - 1)
  /\ changeTrack(midiSongs[k], newTrack,
                 ExtractFromArrayBuffer(midiSongs[k].fileData, newTrack))
  /\ UNCHANGED <<parsedFile, originalFile, selectedTrackIndex, uploadError,
                 decodeVars, outsideFiles>>

UploaderInit ==
  /\ parsedFile = NotParsed
  /\ originalFile = NoMidiData
  /\ selectedTrackIndex = 0
  /\ uploadError = "null"
  /\ midiSongs = <<>>
  /\ selectedSong = NoSong

----------------------------------------------------------------------------
(* Instrument settings *)

\* Ranges an entry of the table may hold, each with 0 <= MIN <= MAX <= 127.
TableRanges == {Range(0, 127), Range(55, 55), Range(55, 79)}

\* The tables of the build: the tin whistle's entry is its known range.
InstrumentRangeTables ==
  { t \in [StandardInstruments -> TableRanges \cup {TinWhistleRange}] :
      t["tin-whistle"] = TinWhistleRange }

\* Numbers typed into the fields of the custom range.
CustomValues == {0, 48, 96, 127}

\* onChange of the instrument selection.
SelectInstrument(tag) ==
  /\ tag # selectedInstrument
  /\ selectedInstrument' = tag
  /\ UNCHANGED <<customRangeMin, customRangeMax, instrumentRanges, outsideRange>>

\* onChange of the fields of the custom range, shown while custom is selected.
SetCustomRangeMin(value) ==
  /\ selectedInstrument = "custom"
  /\ customRangeMin' = value
  /\ UNCHANGED <<selectedInstrument, customRangeMax, instrumentRanges, outsideRange>>

SetCustomRangeMax(value) ==
  /\ selectedInstrument = "custom"
  /\ customRangeMax' = value
  /\ UNCHANGED <<selectedInstrument, customRangeMin, instrumentRanges, outsideRange>>

\* The settings before any input.  While the tin whistle stays selected only
\* its entry of the table is read.
RangeInit ==
  /\ selectedInstrument = "tin-whistle"
  /\ customRangeMin = 48
  /\ customRangeMax = 96
  /\ instrumentRanges = [tag \in StandardInstruments |-> TinWhistleRange]

----------------------------------------------------------------------------
(* Fingering charts of the tin whistle *)

\* The six holes of the whistle, TRUE for a covered hole.
TIN_WHISTLE_FINGERINGS ==
  62 :> <<TRUE, TRUE, TRUE, TRUE, TRUE, TRUE>> @@
  63 :> <<TRUE, TRUE, TRUE, TRUE, TRUE, FALSE>> @@
  64 :> <<TRUE, TRUE, TRUE, TRUE, TRUE, FALSE>> @@
  65 :> <<TRUE, TRUE, TRUE, TRUE, FALSE, FALSE>> @@
  66 :> <<TRUE, TRUE, TRUE, TRUE, FALSE, FALSE>> @@
  67 :> <<TRUE, TRUE, TRUE, FALSE, FALSE, FALSE>> @@
  68 :> <<TRUE, TRUE, FALSE, TRUE, FALSE, FALSE>> @@
  69 :> <<TRUE, TRUE, FALSE, FALSE, FALSE, FALSE>> @@
  70 :> <<TRUE, FALSE, TRUE, FALSE, FALSE, FALSE>> @@
  71 :> <<TRUE, FALSE, FALSE, FALSE, FALSE, FALSE>> @@
  72 :> <<FALSE, FALSE, FALSE, FALSE, FALSE, FALSE>> @@
  73 :> <<TRUE, FALSE, TRUE, FALSE, FALSE, FALSE>> @@
  74 :> <<TRUE, TRUE, TRUE, TRUE, TRUE, TRUE>> @@
  76 :> <<TRUE, TRUE, TRUE, TRUE, TRUE, FALSE>> @@
  77 :> <<TRUE, TRUE, TRUE, TRUE, FALSE, FALSE>> @@
  78 :> <<TRUE, TRUE, TRUE, FALSE, FALSE, FALSE>> @@
  79 :> <<TRUE, TRUE, TRUE, FALSE, FALSE, FALSE>> @@
  81 :> <<TRUE, TRUE, FALSE, FALSE, FALSE, FALSE>> @@
  83 :> <<TRUE, FALSE, FALSE, FALSE, FALSE, FALSE>> @@
  84 :> <<FALSE, FALSE, FALSE, FALSE, FALSE, FALSE>>

\* undefined, what the table gives for a note that is not one of its keys.
NoFingering == <<>>

\* TIN_WHISTLE_FINGERINGS[note]
FingeringOf(note) ==
  IF note \in DOMAIN TIN_WHISTLE_FINGERINGS THEN TIN_WHISTLE_FINGERINGS[note]
  ELSE NoFingering

\* Notes handed to the components: the tin whistle range around the table.
ChartNotes == 59..86

\* What a component shows for a note: the chart of a fingering, the text
\* "Not in standard range", or nothing because rendering threw.
Chart(note, fingering) == [note |-> note, view |-> "chart", fingering |-> fingering]
NotInRange(note) == [note |-> note, view |-> "notInRange", fingering |-> NoFingering]
Thrown(note) == [note |-> note, view |-> "error", fingering |-> NoFingering]

\* a || b for fingerings
OrElse(a, b) == IF a # NoFingering THEN a ELSE b

\* {fingering ? <FingeringChart/> : "... - Not in standard range"}
ChartOrText(note, fingering) ==
  IF fingering # NoFingering THEN Chart(note, fingering) ELSE NotInRange(note)

\* The panels of TinWhistleFingering; NULL stands for no note.
TinWhistleFingering(midiNote, expectedNote) ==
  LET playedFingering == IF midiNote # NULL THEN FingeringOf(midiNote) ELSE NoFingering
      expectedFingering ==
        IF expectedNote # NULL THEN FingeringOf(expectedNote) ELSE NoFingering
  IN IF midiNote = NULL /\ expectedNote = NULL THEN <<>>
     ELSE IF expectedNote # NULL /\ midiNote # NULL /\ expectedNote # midiNote
     THEN <<ChartOrText(expectedNote, expectedFingering),
            ChartOrText(midiNote, playedFingering)>>
     ELSE IF expectedNote # NULL /\ midiNote = NULL
     THEN <<ChartOrText(expectedNote, expectedFingering)>>
     ELSE <<ChartOrText(IF expectedNote # NULL THEN expectedNote ELSE midiNote,
                        OrElse(expectedFingering, playedFingering))>>

\* renderFingeringChart of the timeline: a note without a fingering is drawn
\* with six open holes.
renderFingeringChart(note) ==
  <<Chart(note, OrElse(FingeringOf(note), <<FALSE, FALSE, FALSE, FALSE, FALSE, FALSE>>))>>

\* LargeFingeringChart maps over the fingering it is given, which throws for
\* undefined.
LargeFingeringChart(note, fingering) ==
  IF fingering # NoFingering THEN Chart(note, fingering) ELSE Thrown(note)

\* The side panel of TinWhistlePracticeBoard.
TinWhistlePracticeBoard(target, played) ==
  (IF target # NULL
   THEN <<LargeFingeringChart(target, FingeringOf(target))>>
   ELSE <<>>)
  \o (IF played # NULL
      THEN <<LargeFingeringChart(played, FingeringOf(played))>>
      ELSE <<>>)

NotRendered == [component |-> "none", panels |-> <<>>]

RenderFingering(midiNote, expectedNote) ==
  /\ rendered' = [component |-> "TinWhistleFingering",
                  panels |-> TinWhistleFingering(midiNote, expectedNote)]
  /\ UNCHANGED outsideFingering

RenderTimelineChart(note) ==
  /\ rendered' = [component |-> "renderFingeringChart",
                  panels |-> renderFingeringChart(note)]
  /\ UNCHANGED outsideFingering

RenderPracticeBoard(target, played) ==
  /\ rendered' = [component |-> "TinWhistlePracticeBoard",
                  panels |-> TinWhistlePracticeBoard(target, played)]
  /\ UNCHANGED outsideFingering

FingeringInit == rendered = NotRendered

----------------------------------------------------------------------------

----------------------------------------------------------------------------
(* The practice screen: the selected song and its session *)

\* A song of the library as the uploader creates it.
PracticeSong(id, notes) ==
  MIDISong(id, Extracted(notes, DEFAULT_TEMPO, <<>>, FALSE), 0, NoMidiData, 1)

\* The library of the practice screen.
LibrarySongs == <<PracticeSong(1, <<62, 74>>), PracticeSong(2, <<74>>)>>

\* Notes the device sends in the practice screen: D4, D5 and a wrong note.
SessionNotes == {62, 74, 63}

\* Start Practice: shown for the tin whistle when a song is selected.
StartSelected ==
  /\ selectedInstrument = "tin-whistle"
  /\ selectedSong # NoSong
  /\ StartPractice(selectedSong.notes)

deleteMidiSong(songId) ==
  /\ midiSongs' = SelectSeq(midiSongs, LAMBDA song : song.id # songId)
  /\ IF selectedSong.id = songId
     THEN /\ selectedSong' = NoSong
          /\ practiceSequence' = <<>>
          /\ currentNoteIndex' = 0
          /\ currentTargetNote' = NULL
          /\ isCorrectNote' = "null"
          /\ lastPlayedNote' = NULL
     ELSE UNCHANGED <<selectedSong, matcher>>
  /\ UNCHANGED <<showCompletionMessage, timers>>

DeleteMidiSong(k) ==
  /\ k \in 1..Len(midiSongs)
  /\ deleteMidiSong(midiSongs[k].id)
  /\ session' = IF selectedSong.id = midiSongs[k].id THEN NoSession ELSE session
  /\ wrongAt' = IF selectedSong.id = midiSongs[k].id THEN NoWrong ELSE wrongAt
  /\ lastOn' = NULL
  /\ lastInput' = "delete"
  /\ Rendered
  /\ UNCHANGED <<adapterVars, importVars, decodeVars, parsedFile, originalFile,
                 selectedTrackIndex, uploadError, rangeVars, rendered, previewVars>>

----------------------------------------------------------------------------
(* MIDI preview: the playback driver *)
(* Time is counted in tenths of a second.  While the preview plays, the      *)
(* animation frame runs in every tenth, up to MaxFrames times within 50 ms   *)
(* of its start, and again right after play or a skip.  A callback that is   *)
(* due in a tenth may run before, between or after the frames of that tenth. *)

SKIP_TENTHS == 150           \* skipTime(15), skipTime(-15)
MIN_DURATION_TENTHS == 1     \* Math.max(0.1, ...)
DELETE_EXTRA_TENTHS == 1     \* (noteEvent.duration + 0.1) * 1000

\* The most delete callbacks pending when the user starts playback or skips.
MaxPendingDeletes == 2

\* The most frames that run within 50 ms of the start of a tenth, where they
\* compute the same position; frames are some 16 ms apart.
MaxFrames == 2

\* The file of the previewed song: a track of one second, and a track with a
\* note at its start and a note after sixteen seconds, both at 60 BPM.
PreviewFile ==
  MidiData(<<  <<TempoEvent(1000000, 0), NoteOnEvent(62, 100, 0), NoteOffEvent(62, 480)>>,
               <<TempoEvent(1000000, 0), NoteOnEvent(62, 100, 0),
                 NoteOnEvent(74, 100, 7680)>>  >>)
PreviewSong == MIDISong(0, ExtractFromArrayBuffer(PreviewFile, 0), 0, PreviewFile, 2)

\* Half beats converted to seconds with secondsPerBeat = 60 / tempo, in tenths.
InTenths(halfBeats, tempo) == (halfBeats * 300) \div tempo

Larger(a, b) == IF a > b THEN a ELSE b
Smaller(a, b) == IF a < b THEN a ELSE b

NoteEvent(n, tempo) ==
  [note |-> n.note,
   startTime |-> InTenths(n.startTime, tempo),
   duration |-> Larger(MIN_DURATION_TENTHS, InTenths(n.duration, tempo))]

\* The effect that loads the notes of the current track.
LoadTrackData(song, trackIndex) ==
  LET r == ExtractFromArrayBuffer(song.fileData, trackIndex)
  IN IF r.error = "none" /\ Len(r.notesWithTiming) > 0
     THEN SortByStart([i \in 1..Len(r.notesWithTiming) |->
                         NoteEvent(r.notesWithTiming[i], song.tempo)])
     ELSE <<>>

TotalDuration(noteEvents) ==
  IF noteEvents = <<>> THEN 0
  ELSE Maximum({ noteEvents[i].startTime + noteEvents[i].duration :
                   i \in 1..Len(noteEvents) })

\* `${noteEvent.note}-${noteEvent.startTime}`
NoteId(noteEvent) == <<noteEvent.note, noteEvent.startTime>>

\* startTime <= newCurrentTime && startTime > newCurrentTime - 0.05
IsTimeToPlay(noteEvent, newCurrentTime) ==
  /\ noteEvent.startTime <= newCurrentTime
  /\ 2 * noteEvent.startTime > 2 * newCurrentTime - 1

\* The notes the frame triggers at newCurrentTime.
CurrentNotes(newCurrentTime) ==
  SelectSeq(trackData, LAMBDA noteEvent :
              IsTimeToPlay(noteEvent, newCurrentTime)
                /\ NoteId(noteEvent) \notin scheduledNotes)

\* setTimeout(() => scheduledNotesRef.current.delete(noteId), ...) for each
\* triggered note; stale marks the callbacks that were pending when the set
\* was cleared.
RECURSIVE ScheduleDeletes(_, _)
ScheduleDeletes(pending, noteEvents) ==
  IF noteEvents = <<>> THEN pending
  ELSE ScheduleDeletes(
         Schedule(pending, [noteId |-> NoteId(Head(noteEvents)),
                            left |-> Head(noteEvents).duration + DELETE_EXTRA_TENTHS,
                            stale |-> FALSE]),
         Tail(noteEvents))

\* scheduledNotesRef.current.clear(): the pending callbacks stay.
Cleared(pending) == [i \in 1..Len(pending) |-> [pending[i] EXCEPT !.stale = TRUE]]

\* Variant: the position runs past the end of the track.
animateUnclamped(newCurrentTime) ==
  LET currentNotes == CurrentNotes(newCurrentTime)
  IN /\ currentTime' = newCurrentTime
     /\ scheduledNotes' =
          scheduledNotes \cup { NoteId(currentNotes[i]) : i \in 1..Len(currentNotes) }
     /\ deleteTimers' = ScheduleDeletes(deleteTimers, currentNotes)
     /\ tones' = [noteIds |-> { NoteId(currentNotes[i]) : i \in 1..Len(currentNotes) },
                   by |-> "animate"]
     /\ animationFrame' = TRUE
     /\ frames' = frames + 1
     /\ UNCHANGED <<isPlaying, isPlayingRef, pausedTimeRef>>

\* animate, with the position it computes.
animate(newCurrentTime) ==
  LET currentNotes == CurrentNotes(newCurrentTime)
      triggered == { NoteId(currentNotes[i]) : i \in 1..Len(currentNotes) }
  IN /\ tones' = [noteIds |-> triggered, by |-> "animate"]
     /\ IF newCurrentTime >= totalDuration
        THEN /\ isPlayingRef' = FALSE
             /\ isPlaying' = FALSE
             /\ currentTime' = totalDuration
             /\ pausedTimeRef' = totalDuration
             /\ scheduledNotes' = {}
             /\ deleteTimers' = Cleared(ScheduleDeletes(deleteTimers, currentNotes))
             /\ animationFrame' = FALSE
             /\ frames' = 0
        ELSE /\ currentTime' = newCurrentTime
             /\ scheduledNotes' = scheduledNotes \cup triggered
             /\ deleteTimers' = ScheduleDeletes(deleteTimers, currentNotes)
             /\ animationFrame' = TRUE
             /\ frames' = frames + 1
             /\ UNCHANGED <<isPlaying, isPlayingRef, pausedTimeRef>>

\* The animation frame runs.
Animate ==
  /\ animationFrame /\ frames < MaxFrames
  /\ IF isPlayingRef
     THEN animate(pausedTimeRef + elapsed)
     ELSE /\ animationFrame' = FALSE
          /\ UNCHANGED <<isPlaying, isPlayingRef, currentTime, pausedTimeRef,
                         scheduledNotes, deleteTimers, tones, frames>>
  /\ UNCHANGED <<elapsed, trackData, totalDuration, currentTrack, previewSong,
                 outsidePreview>>

\* togglePlayback, the audio context being there.
TogglePlayback ==
  /\ IF isPlayingRef
     THEN /\ isPlayingRef' = FALSE
          /\ isPlaying' = FALSE
          /\ pausedTimeRef' = currentTime
          /\ animationFrame' = FALSE
          /\ frames' = 0
          /\ UNCHANGED <<elapsed, scheduledNotes, deleteTimers>>
     ELSE /\ Len(deleteTimers) < MaxPendingDeletes
          /\ pausedTimeRef' = currentTime
          /\ elapsed' = 0
          /\ scheduledNotes' = {}
          /\ deleteTimers' = Cleared(deleteTimers)
          /\ isPlayingRef' = TRUE
          /\ isPlaying' = TRUE
          /\ animationFrame' = TRUE
          /\ frames' = 0
  /\ tones' = [noteIds |-> {}, by |-> "toggle"]
  /\ UNCHANGED <<currentTime, trackData, totalDuration, currentTrack, previewSong,
                 outsidePreview>>

\* Variant: the new position is not held within the track.
SkippedUnclamped(seconds) == currentTime + seconds

\* Math.max(0, Math.min(totalDuration, currentTime + seconds))
Skipped(seconds) == Larger(0, Smaller(totalDuration, currentTime + seconds))

\* skipTime
SkipTime(seconds) ==
  /\ Len(deleteTimers) < MaxPendingDeletes
  /\ currentTime' = Skipped(seconds)
  /\ pausedTimeRef' = Skipped(seconds)
  /\ scheduledNotes' = {}
  /\ deleteTimers' = Cleared(deleteTimers)
  /\ elapsed' = IF isPlaying THEN 0 ELSE elapsed
  /\ frames' = 0
  /\ tones' = [noteIds |-> {}, by |-> "skip"]
  /\ UNCHANGED <<isPlaying, isPlayingRef, animationFrame, trackData, totalDuration,
                 currentTrack, previewSong, outsidePreview>>

\* What stopPlayback and handleTrackChange do to the driver.
stopped ==
  /\ isPlayingRef' = FALSE
  /\ isPlaying' = FALSE
  /\ currentTime' = 0
  /\ pausedTimeRef' = 0
  /\ scheduledNotes' = {}
  /\ deleteTimers' = Cleared(deleteTimers)
  /\ animationFrame' = FALSE
  /\ frames' = 0
  /\ UNCHANGED elapsed

\* stopPlayback
StopPlayback ==
  /\ stopped
  /\ tones' = [noteIds |-> {}, by |-> "stop"]
  /\ UNCHANGED <<trackData, totalDuration, currentTrack, previewSong, outsidePreview>>

\* handleTrackChange, with onTrackChange of App and the effect that loads the
\* notes of the new track.
HandleTrackChange(newTrackIndex) ==
  LET r == ExtractFromArrayBuffer(previewSong.fileData, newTrackIndex)
      updatedSong == IF r.error = "none"
                     THEN [previewSong EXCEPT !.selectedTrack = newTrackIndex,
                                              !.notes = r.notes, !.tempo = r.tempo,
                                              !.notesWithTiming = r.notesWithTiming,
                                              !.timed = r.timed]
                     ELSE previewSong
  IN /\ newTrackIndex \in 0..(previewSong.availableTracks - 1)
     /\ stopped
     /\ currentTrack' = newTrackIndex
     /\ previewSong' = updatedSong
     /\ changeTrack(previewSong, newTrackIndex, r)
     /\ trackData' = LoadTrackData(updatedSong, newTrackIndex)
     /\ totalDuration' = TotalDuration(LoadTrackData(updatedSong, newTrackIndex))
     /\ tones' = [noteIds |-> {}, by |-> "track"]
     /\ UNCHANGED <<appVars, adapterVars, importVars, decodeVars, parsedFile,
                    originalFile, selectedTrackIndex, uploadError, rangeVars, rendered>>

\* A delete callback fires.
FireDelete ==
  /\ deleteTimers # <<>> /\ IsDue(Head(deleteTimers))
  /\ scheduledNotes' = scheduledNotes \ {Head(deleteTimers).noteId}
  /\ deleteTimers' = Tail(deleteTimers)
  /\ tones' = [noteIds |-> {}, by |-> IF Head(deleteTimers).stale THEN "staleDelete"
                                       ELSE "delete"]
  /\ UNCHANGED <<isPlaying, isPlayingRef, currentTime, pausedTimeRef, elapsed,
                 animationFrame, frames, trackData, totalDuration, currentTrack,
                 previewSong, outsidePreview>>

\* A tenth of a second passes.
PreviewTick ==
  /\ IF deleteTimers = <<>> THEN TRUE ELSE ~IsDue(Head(deleteTimers))
  /\ animationFrame => frames > 0
  /\ isPlayingRef \/ deleteTimers # <<>>
  /\ elapsed' = IF isPlayingRef THEN elapsed + 1 ELSE elapsed
  /\ deleteTimers' = Age(deleteTimers)
  /\ frames' = 0
  /\ tones' = [noteIds |-> {}, by |-> "tick"]
  /\ UNCHANGED <<isPlaying, isPlayingRef, currentTime, pausedTimeRef, scheduledNotes,
                 animationFrame, trackData, totalDuration, currentTrack, previewSong,
                 outsidePreview>>

\* No preview is open.
PreviewInit ==
  /\ isPlaying = FALSE
  /\ isPlayingRef = FALSE
  /\ currentTime = 0
  /\ totalDuration = 0
  /\ currentTrack = 0
  /\ trackData = <<>>
  /\ pausedTimeRef = 0
  /\ elapsed = 0
  /\ scheduledNotes = {}
  /\ deleteTimers = <<>>
  /\ animationFrame = FALSE
  /\ frames = 0
  /\ previewSong = NoSong
  /\ tones = [noteIds |-> {}, by |-> "none"]

\* The practice screen before any input.
AppInit ==
  /\ currentTargetNote = NULL
  /\ lastPlayedNote = NULL
  /\ isCorrectNote = "null"
  /\ practiceSequence = <<>>
  /\ currentNoteIndex = 0
  /\ showCompletionMessage = FALSE
  /\ timers = <<>>
  /\ listener = NoClosure
  /\ session = NoSession
  /\ wrongAt = NoWrong
  /\ lastOn = NULL
  /\ lastInput = "none"

Init ==
  /\ AppInit /\ AdapterInit /\ ImportInit /\ DecodeInit /\ UploaderInit /\ RangeInit
  /\ FingeringInit /\ PreviewInit

Next ==
  \/ \E note \in InputNotes : NoteOn(note)
  \/ \E notes \in Songs : StartPractice(notes)
  \/ StopPractice
  \/ ResetPractice
  \/ SkipNote
  \/ FireTimer
  \/ Tick

Spec == Init /\ [][Next]_vars

\* The event loop runs every due callback, time passes, and the learner keeps
\* playing.
FairSpec ==
  /\ Spec
  /\ WF_vars(FireTimer)
  /\ WF_vars(Tick)
  /\ WF_vars(\E note \in InputNotes : InCurrentRange(note) /\ NoteOn(note))

\* The same program when a render may still be pending while the next MIDI
\* message or callback is handled: only a render re-registers the listener
\* (the effect depends on the target, the sequence and the index).  Button
\* handlers render at once, and so does the component when 500 ms pass.
PendingNext ==
  \/ \E note \in InputNotes : LateNoteOn(note)
  \/ LateFireTimer
  \/ Rerender
  \/ \E notes \in Songs : StartPractice(notes)
  \/ StopPractice
  \/ ResetPractice
  \/ SkipNote
  \/ Tick

PendingSpec == Init /\ [][PendingNext]_vars

\* Short sessions in which the learner may repeat a note while the callbacks
\* of the completion are pending.
CompletionNext ==
  \/ \E note \in {62, 63} : RepeatedNoteOn(note)
  \/ \E notes \in {<<62>>, <<62, 62>>} : StartPractice(notes)
  \/ StopPractice
  \/ FireTimer
  \/ Tick

CompletionSpec == Init /\ [][CompletionNext]_vars

\* The adapter on its own: the platform, the callers and the listeners act.
AdapterNext ==
  \/ \E granted \in BOOLEAN : Initialize(granted)
  \/ Dispose
  \/ \E id \in Ports : Connect(id)
  \/ \E id \in Ports : Disconnect(id)
  \/ \E port \in Ports, state \in {"connected", "disconnected"}, listed \in BOOLEAN :
        InputStateChange(port, state, listed)
  \/ \E state \in {"connected", "disconnected"} : OutputStateChange(state)
  \/ \E port \in Ports, data \in RawMessages : RawMessage(port, data)
  \/ \E l \in MessageListenerIds : addMessageListener(l)
  \/ \E l \in MessageListenerIds : removeMessageListener(l)
  \/ \E l \in DeviceListenerIds : addDeviceListener(l)
  \/ \E l \in DeviceListenerIds : removeDeviceListener(l)

AdapterSpec == Init /\ [][AdapterNext]_vars

\* A track of a parsed file is handed to the extraction.
ImportSpecInit ==
  /\ AppInit /\ AdapterInit /\ DecodeInit /\ UploaderInit /\ RangeInit /\ FingeringInit
  /\ PreviewInit
  /\ track \in Tracks
  /\ extraction = NotExtracted

ImportSpec == ImportSpecInit /\ [][Extract]_vars

\* The decoding functions, called on any of the files.
DecodeSpecInit ==
  /\ AppInit /\ AdapterInit /\ ImportInit /\ UploaderInit /\ RangeInit /\ FingeringInit
  /\ PreviewInit
  /\ midiFile \in Files
  /\ decoded = NotParsed
  /\ call = NoCall

DecodeNext ==
  \/ Parse
  \/ \E trackIndex \in TrackIndexes : ExtractBuffer(trackIndex)
  \/ \E trackIndex \in TrackIndexes : ExtractFile(trackIndex)

DecodeSpec == DecodeSpecInit /\ [][DecodeNext]_vars

\* The uploader and the library, which may hold a song loaded from storage.
LibrarySpecInit ==
  /\ AppInit /\ AdapterInit /\ ImportInit /\ DecodeInit /\ RangeInit /\ FingeringInit
  /\ PreviewInit
  /\ parsedFile = NotParsed
  /\ originalFile = NoMidiData
  /\ selectedTrackIndex = 0
  /\ uploadError = "null"
  /\ midiSongs \in {<<>>, <<StoredSong>>}
  /\ selectedSong = NoSong

LibraryNext ==
  \/ \E file \in UploadFiles, midiName \in BOOLEAN : Upload(file, midiName)
  \/ \E index \in 0..1 : SelectTrackIndex(index)
  \/ \E reads \in BOOLEAN : CreateSong(reads)
  \/ \E k \in 1..MaxSongs : SelectSong(k)
  \/ \E k \in 1..MaxSongs, newTrack \in 0..1 : ChangeTrack(k, newTrack)

LibrarySpec == LibrarySpecInit /\ [][LibraryNext]_vars

\* The instrument settings, for every table of the build.
RangeSpecInit ==
  /\ AppInit /\ AdapterInit /\ ImportInit /\ DecodeInit /\ UploaderInit
  /\ FingeringInit /\ PreviewInit
  /\ selectedInstrument = "tin-whistle"
  /\ customRangeMin = 48
  /\ customRangeMax = 96
  /\ instrumentRanges \in InstrumentRangeTables

RangeNext ==
  \/ \E tag \in InstrumentTypes : SelectInstrument(tag)
  \/ \E value \in CustomValues : SetCustomRangeMin(value)
  \/ \E value \in CustomValues : SetCustomRangeMax(value)

RangeSpec == RangeSpecInit /\ [][RangeNext]_vars

\* The components that draw fingering charts, rendered for any notes.
FingeringNext ==
  \/ \E midiNote, expectedNote \in ChartNotes \cup {NULL} :
       RenderFingering(midiNote, expectedNote)
  \/ \E note \in ChartNotes : RenderTimelineChart(note)
  \/ \E target, played \in ChartNotes \cup {NULL} : RenderPracticeBoard(target, played)

FingeringSpec == Init /\ [][FingeringNext]_vars

\* The preview, open on a song of the library.
PreviewSpecInit ==
  /\ AppInit /\ AdapterInit /\ ImportInit /\ DecodeInit /\ RangeInit /\ FingeringInit
  /\ parsedFile = NotParsed
  /\ originalFile = NoMidiData
  /\ selectedTrackIndex = 0
  /\ uploadError = "null"
  /\ midiSongs = <<PreviewSong>>
  /\ selectedSong = NoSong
  /\ previewSong = PreviewSong
  /\ currentTrack = PreviewSong.selectedTrack
  /\ trackData = LoadTrackData(PreviewSong, PreviewSong.selectedTrack)
  /\ totalDuration = TotalDuration(LoadTrackData(PreviewSong, PreviewSong.selectedTrack))
  /\ isPlaying = FALSE
  /\ isPlayingRef = FALSE
  /\ currentTime = 0
  /\ pausedTimeRef = 0
  /\ elapsed = 0
  /\ scheduledNotes = {}
  /\ deleteTimers = <<>>
  /\ animationFrame = FALSE
  /\ frames = 0
  /\ tones = [noteIds |-> {}, by |-> "none"]

PreviewNext ==
  \/ TogglePlayback
  \/ Animate
  \/ \E seconds \in {-SKIP_TENTHS, SKIP_TENTHS} : SkipTime(seconds)
  \/ StopPlayback
  \/ \E newTrackIndex \in 0..1 : HandleTrackChange(newTrackIndex)
  \/ FireDelete
  \/ PreviewTick

PreviewSpec == PreviewSpecInit /\ [][PreviewNext]_vars

\* The practice screen with its library: songs are selected, practised and
\* deleted.
SessionSpecInit ==
  /\ AppInit /\ AdapterInit /\ ImportInit /\ DecodeInit /\ RangeInit /\ FingeringInit
  /\ PreviewInit
  /\ parsedFile = NotParsed
  /\ originalFile = NoMidiData
  /\ selectedTrackIndex = 0
  /\ uploadError = "null"
  /\ midiSongs = LibrarySongs
  /\ selectedSong = NoSong

SessionNext ==
  \/ \E note \in SessionNotes : NoteOn(note)
  \/ StartSelected
  \/ StopPractice
  \/ ResetPractice
  \/ SkipNote
  \/ FireTimer
  \/ Tick
  \/ \E k \in 1..Len(LibrarySongs) : SelectSong(k)
  \/ \E k \in 1..Len(LibrarySongs) : DeleteMidiSong(k)

SessionSpec == SessionSpecInit /\ [][SessionNext]_vars

----------------------------------------------------------------------------
(* Properties *)

\* A step of the message handler for an in-range note while a target is set.
MatcherNoteOn(note) ==
  NoteOn(note) /\ InCurrentRange(note) /\ currentTargetNote # NULL

\* The step took the success path from index currentNoteIndex: the index moved
\* to the next note, or the completion signal was emitted at the last index.
Advanced ==
  IF Len(practiceSequence) > 0 /\ currentNoteIndex < Len(practiceSequence) - 1
  THEN /\ currentNoteIndex' = currentNoteIndex + 1
       /\ currentTargetNote' = practiceSequence[currentNoteIndex + 2]
  ELSE /\ showCompletionMessage'
       /\ session'.emitted

\* C1: while a target is awaited, a NoteOn for note k advances the matcher if
\* and only if k is the very MIDI number of the target; every other in-range
\* k records Incorrect and leaves index, target and completion signal as they
\* were.
C1_ExactMatch ==
  [][\A k \in InputNotes : MatcherNoteOn(k) =>
        IF k = currentTargetNote
        THEN isCorrectNote' = "true" /\ Advanced
        ELSE /\ isCorrectNote' = "false"
             /\ UNCHANGED <<currentNoteIndex, currentTargetNote, practiceSequence,
                            showCompletionMessage>>
             /\ session'.emitted = session.emitted]_vars

\* The octave of the target was played: Incorrect, still at the same target.
C1_Witness ==
  /\ wrongAt # NoWrong /\ wrongAt.age = 0
  /\ lastPlayedNote = 74 /\ currentTargetNote = 62
  /\ isCorrectNote = "false" /\ currentNoteIndex = wrongAt.idx

\* The state the success path leads to from index w.idx of sequence w.seq.
Recovered(w) ==
  IF Len(w.seq) > 0 /\ w.idx < Len(w.seq) - 1
  THEN currentNoteIndex = w.idx + 1 /\ currentTargetNote = w.seq[w.idx + 2]
  ELSE showCompletionMessage /\ session.emitted

C3_Completion ==
  (session.clean /\ Len(session.seq) > 0) =>
     IF session.fed < Len(session.seq)
     THEN currentTargetNote # NULL /\ ~session.emitted
     ELSE session.emitted

\* C4: a NoteOn for the note of the previous NoteOn, less than 500 ms after
\* it, is ignored.
C4_Debounce ==
  [][\A k \in InputNotes : (NoteOn(k) /\ InCurrentRange(k) /\ lastOn = k) =>
        UNCHANGED <<currentNoteIndex, currentTargetNote, isCorrectNote,
                    practiceSequence, showCompletionMessage, timers>>]_vars

\* C5: after stop() or reset() and until the next input, no callback changes
\* the matcher state.
C5_NoStaleCallback ==
  [][(lastInput \in {"stop", "reset"} /\ FireTimer) => UNCHANGED matcher]_vars

\* After a wrong note at index i the matcher leaves index i or emits the
\* completion signal, whatever is played next.
LeavesIndex ==
  \A i \in 0..2 :
     (wrongAt # NoWrong /\ wrongAt.idx = i /\ currentNoteIndex = i)
        ~> (currentNoteIndex # i \/ session.emitted)

\* A running session whose last input was a note sooner or later emits its
\* completion signal, unless a button is pressed.
SessionCompletes ==
  (session.alive /\ lastInput = "noteon")
     ~> (session.emitted \/ lastInput # "noteon")

\* C6: the matcher is never blocked at an index.  Once a wrong note has been
\* played at index i the matcher eventually leaves index i, whatever the
\* learner plays next, and so every session in which notes keep arriving
\* eventually completes unless it is stopped.
C6_Unblockable == LeavesIndex /\ SessionCompletes

\* C7: start() with an empty sequence changes nothing.
C7_EmptyStartNoOp ==
  [][StartPractice(<<>>) => UNCHANGED <<matcher, showCompletionMessage, timers>>]_vars

\* C8: a NoteOn while no target is awaited changes no field of the practice
\* session and schedules no callback.
C8_IdleIgnored ==
  [][\A k \in InputNotes : (NoteOn(k) /\ currentTargetNote = NULL) =>
        UNCHANGED <<matcher, showCompletionMessage, timers>>]_vars

\* C8 amended: a NoteOn while no target is awaited records the note as
\* lastPlayedNote when it is in the instrument range, and changes nothing
\* else: sequence, index, target, match result and completion signal stay,
\* and no callback is scheduled.
C8_IdleRecordsOnlyNote ==
  [][\A k \in InputNotes : (NoteOn(k) /\ currentTargetNote = NULL) =>
        /\ lastPlayedNote' = IF InCurrentRange(k) THEN k ELSE lastPlayedNote
        /\ UNCHANGED <<practiceSequence, currentNoteIndex, currentTargetNote,
                       isCorrectNote, showCompletionMessage, timers>>]_vars

\* A note was played while idle: it is shown, nothing else moved.
C8_Witness ==
  /\ lastInput = "noteon" /\ lastOn = 62 /\ lastPlayedNote = 62
  /\ currentTargetNote = NULL /\ practiceSequence = <<>> /\ isCorrectNote = "null"
  /\ timers = <<>>

\* The current index is the last one of a running sequence.
AtLastIndex ==
  Len(practiceSequence) > 0 /\ currentNoteIndex = Len(practiceSequence) - 1

\* C9: skip() at the last index emits the completion signal and schedules
\* the return to idle.
C9_SkipCompletes ==
  [][(SkipNote /\ AtLastIndex) =>
        /\ showCompletionMessage'
        /\ \E n \in 1..Len(timers') : timers'[n].kind = "resetIdle"
                                      /\ timers'[n].left = ResetTicks]_vars

\* C9 amended: skip() at the last index does nothing: index, target and
\* feedback stay, no completion signal is emitted and no callback is
\* scheduled.
C9_SkipAtLastNoOp ==
  [][(SkipNote /\ AtLastIndex) =>
        /\ UNCHANGED <<matcher, showCompletionMessage, timers>>
        /\ session'.emitted = session.emitted]_vars

\* skip() was pressed on a one-note sequence: still there, nothing signalled.
C9_Witness ==
  /\ lastInput = "skip" /\ practiceSequence = <<62>> /\ currentNoteIndex = 0
  /\ currentTargetNote = 62 /\ ~showCompletionMessage /\ timers = <<>>

\* C10: reset() on a session that holds a sequence leads to index 0 with
\* target sequence[0], keeps the sequence, and clears lastPlayedNote and the
\* match result.
C10_ResetToStart ==
  [][(ResetPractice /\ Len(practiceSequence) > 0) =>
        /\ currentNoteIndex' = 0
        /\ currentTargetNote' = practiceSequence[1]
        /\ practiceSequence' = practiceSequence
        /\ lastPlayedNote' = NULL
        /\ isCorrectNote' = "null"]_vars

\* reset() after a correct note of a three-note song: back at its first note
\* while the feedback callback of that note is still pending.
C10_Witness ==
  /\ lastInput = "reset" /\ practiceSequence = <<62, 74, 62>>
  /\ currentNoteIndex = 0 /\ currentTargetNote = 62
  /\ lastPlayedNote = NULL /\ isCorrectNote = "null"
  /\ \E n \in 1..Len(timers) : timers[n].kind = "clearFeedback"

\* The matcher is idle: no target, empty sequence, index 0 and no feedback.
Idle ==
  /\ currentTargetNote = NULL
  /\ practiceSequence = <<>>
  /\ currentNoteIndex = 0
  /\ isCorrectNote = "null"

\* Is t the post-completion callback?
IsReset(t) == t.kind = "resetIdle"

\* C11: matching the note at the last index emits the completion signal and
\* schedules the return to idle one second later; that callback stays
\* scheduled until it runs, time does not pass beyond its due moment, and
\* when it runs the matcher is idle: no target, empty sequence, index 0 and
\* no feedback.
C11_CompleteThenIdle ==
  [][/\ \A k \in InputNotes :
          (MatcherNoteOn(k) /\ k = currentTargetNote /\ IsLastIndex(Closure)) =>
             /\ showCompletionMessage' /\ session'.emitted
             /\ \E n \in 1..Len(timers') :
                   IsReset(timers'[n]) /\ timers'[n].left = ResetTicks
     /\ \A n \in 1..Len(timers) : IsReset(timers[n]) =>
          /\ timers[n].left \in 0..ResetTicks
          /\ \/ FireTimer /\ n = 1
             \/ \E m \in 1..Len(timers') :
                   /\ IsReset(timers'[m])
                   /\ timers'[m].left = IF Tick THEN timers[n].left - 1
                                        ELSE timers[n].left
     /\ (FireTimer /\ IsReset(Head(timers))) => Idle']_vars

\* The three notes of a song were played correctly, one second passed without
\* input and the matcher is idle with the completion message still shown.
C11_Witness ==
  /\ Idle /\ lastInput = "noteon" /\ lastPlayedNote = 62
  /\ session.clean /\ session.seq = <<62, 74, 62>> /\ session.fed = 3
  /\ session.emitted /\ showCompletionMessage
  /\ Len(timers) = 1 /\ timers[1].kind = "hideCompletion"
  /\ timers[1].left = HideTicks - ResetTicks

\* C12: note events are handled one at a time, each to completion including
\* its state transition.  A NoteOn that follows another NoteOn is judged
\* against the target and index the earlier one produced: it is Correct
\* exactly when it equals the current target, and then advances from the
\* current index; otherwise it is Incorrect and the index stays.
C12_JudgedAgainstCurrent ==
  [][\A k \in InputNotes :
        (/\ LateNoteOn(k) /\ InCurrentRange(k)
         /\ lastInput = "noteon" /\ lastOn # NULL
         /\ currentTargetNote # NULL) =>
           IF k = currentTargetNote
           THEN isCorrectNote' = "true" /\ Advanced
           ELSE /\ isCorrectNote' = "false"
                /\ UNCHANGED <<currentNoteIndex, currentTargetNote>>]_vars

\* What a raw message is, by its length, the high nibble of its status byte
\* and its velocity.
KindOf(data) ==
  IF Len(data) = 3 /\ data[1] \div 16 = 9 /\ data[3] > 0 THEN "noteon"
  ELSE IF Len(data) = 3 /\ (data[1] \div 16 = 8 \/ (data[1] \div 16 = 9 /\ data[3] = 0))
  THEN "noteoff"
  ELSE "none"

\* Every listener of ls got exactly one call in calls, and nobody else got one.
OncePerListener(calls, ls) ==
  /\ Len(calls) = Len(ls)
  /\ \A i \in 1..Len(ls) : calls[i].to = ls[i]

\* C13: for every raw message each subscriber receives exactly one NoteOn
\* when the message has 3 bytes, high status nibble 0x9 and velocity > 0;
\* exactly one NoteOff when the high nibble is 0x8, or 0x9 with velocity 0;
\* and nothing for any other message.
C13_Decoding ==
  [][\A port \in Ports, data \in RawMessages : RawMessage(port, data) =>
        IF KindOf(data) = "none" THEN out'.messages = <<>>
        ELSE /\ OncePerListener(out'.messages, messageListeners)
             /\ \A n \in 1..Len(out'.messages) :
                   out'.messages[n].got = [type |-> KindOf(data), note |-> data[2],
                                           velocity |-> data[3]]]_vars

\* A note on with velocity 0 reached both subscribers as a note off.
C13_Witness ==
  /\ out.op = "message" /\ Len(out.messages) = 2
  /\ \A n \in 1..2 : out.messages[n].got = [type |-> "noteoff", note |-> 62, velocity |-> 0]

\* C14: an exception thrown by a message or device listener never leaves the
\* adapter, and every registered listener still receives the event.
C14_ListenerIsolation ==
  [][/\ ~out'.escaped
     /\ \A port \in Ports, data \in RawMessages :
          (RawMessage(port, data) /\ KindOf(data) # "none") =>
             \A i \in 1..Len(messageListeners) :
                \E n \in 1..Len(out'.messages) : out'.messages[n].to = messageListeners[i]
     /\ (out' # out /\ out'.devices # <<>>) =>
          \A i \in 1..Len(deviceListeners) :
             \E n \in 1..Len(out'.devices) : out'.devices[n].to = deviceListeners[i]]_vars

\* The throwing listener was called first; the one after it was called too
\* and nothing escaped.
C14_Witness ==
  /\ out.op = "message" /\ ~out.escaped
  /\ messageListeners = <<"m1", "m2">>
  /\ Len(out.messages) = 2
  /\ \A n \in 1..2 : out.messages[n].to = messageListeners[n]
                     /\ out.messages[n].got.type = "noteon"

\* C15: connect(id) for an id that is already connected, or is not a known
\* input, returns false, leaves the connected set as it is and notifies no
\* device listener.
C15_ConnectRefused ==
  [][\A id \in Ports :
        (Connect(id) /\ (id \in connectedInputs \/ inputs[id] = "absent")) =>
           /\ out'.ret = "false"
           /\ connectedInputs' = connectedInputs
           /\ out'.devices = <<>>]_vars

\* The device list as the listeners should now see it.
CurrentList == DeviceList(midiAccess, inputs)

\* Every device listener of ls was handed the list at least once, and nothing
\* but the list was handed out.
ListEmitted(o, ls, list) ==
  /\ \A i \in 1..Len(ls) : \E n \in 1..Len(o.devices) : o.devices[n].to = ls[i]
  /\ \A n \in 1..Len(o.devices) : o.devices[n].got = list

\* C16: on a platform connect event for an input port the adapter opens the
\* port: it joins the connected set and carries the message handler, so its
\* messages reach the subscribers; on a disconnect event the port leaves the
\* connected set and loses the handler.  Both times the current device list
\* is emitted to every device listener.
C16_StateChange ==
  [][\A port \in Ports, listed \in BOOLEAN :
        /\ (midiAccess /\ InputStateChange(port, "connected", listed)) =>
              /\ port \in connectedInputs' /\ port \in onmidimessage'
              /\ inputs'[port] = "connected"
              /\ ListEmitted(out', deviceListeners, CurrentList')
        /\ (midiAccess /\ InputStateChange(port, "disconnected", listed)) =>
              /\ port \notin connectedInputs' /\ port \notin onmidimessage'
              /\ ListEmitted(out', deviceListeners, CurrentList')]_vars

\* Port 2 was plugged in after port 1 had been unplugged: 2 is open, 1 is
\* not, and both device listeners got the list, the throwing one included.
C16_Witness ==
  /\ out.op = "connected" /\ out.port = 2
  /\ connectedInputs = {2} /\ onmidimessage = {2}
  /\ inputs[1] = "disconnected" /\ inputs[2] = "connected"
  /\ deviceListeners = <<"d1", "d2">>
  /\ ListEmitted(out, deviceListeners, CurrentList) /\ out.devices # <<>>

\* The tick of the i-th event of the track: the sum of the delta times up to it.
RECURSIVE TickAt(_)
TickAt(i) == IF i = 0 THEN 0 ELSE TickAt(i - 1) + track[i].deltaTime

\* The i-th event starts a note / ends a note.
StartsNote(i) == track[i].type = 9 /\ track[i].velocity > 0
EndsNote(i) == track[i].type = 8 \/ (track[i].type = 9 /\ track[i].velocity = 0)

\* C17: the timed notes returned for a track are in ascending order of
\* their start, also when the note offs come in another order than the
\* note ons.
C17_SortedByStart ==
  extraction.done =>
    \A i, j \in 1..Len(extraction.notesWithTiming) :
       i < j => extraction.notesWithTiming[i].startTime
                  <= extraction.notesWithTiming[j].startTime

\* 62 starts first and ends last; 74 starts and ends inside it.  The result
\* lists 62 (3 beats from beat 0) before 74 (1 beat from beat 1).
C17_Witness ==
  /\ extraction.done
  /\ track = <<NoteOnEvent(62, 100, 0), NoteOnEvent(74, 100, 480),
               NoteOffEvent(74, 480), NoteOffEvent(62, 480)>>
  /\ extraction.notesWithTiming =
       <<[note |-> 62, startTime |-> 0, duration |-> 6],
         [note |-> 74, startTime |-> 2, duration |-> 2]>>

\* C18: the notes and the timed notes of a result describe the same
\* sequence: same length, and the same note at every position.
C18_SameSequence ==
  extraction.done =>
    /\ Len(extraction.notes) = Len(extraction.notesWithTiming)
    /\ \A i \in 1..Len(extraction.notes) :
          extraction.notes[i] = extraction.notesWithTiming[i].note

\* C19: a note on without any later note off for its pitch is not dropped:
\* the result holds a timed note with that pitch, the start of that note on
\* and the fallback duration of half a beat.
C19_HangingKept ==
  extraction.done =>
    \A i \in 1..Len(track) :
       (/\ StartsNote(i)
        /\ ~\E j \in (i + 1)..Len(track) : EndsNote(j) /\ track[j].note = track[i].note) =>
          \E n \in 1..Len(extraction.notesWithTiming) :
             LET t == extraction.notesWithTiming[n]
             IN /\ t.note = track[i].note
                /\ t.startTime * TicksPerBeat = 2 * TickAt(i)
                /\ t.duration = HANGING_DURATION

\* The track holds matched pairs only: for every pitch no note off comes
\* before its note on, and there are as many note offs as note ons.
MatchedPairsOnly ==
  \A p \in {62, 74} :
     /\ \A k \in 1..Len(track) :
           Cardinality({j \in 1..k : EndsNote(j) /\ track[j].note = p})
             <= Cardinality({i \in 1..k : StartsNote(i) /\ track[i].note = p})
     /\ Cardinality({j \in 1..Len(track) : EndsNote(j) /\ track[j].note = p})
          = Cardinality({i \in 1..Len(track) : StartsNote(i) /\ track[i].note = p})

\* No pitch starts again while it sounds.
NoOverlap ==
  \A i, k \in 1..Len(track) :
     (i < k /\ StartsNote(i) /\ StartsNote(k) /\ track[i].note = track[k].note) =>
        \E j \in (i + 1)..(k - 1) : EndsNote(j) /\ track[j].note = track[i].note

\* C20: in a track of matched pairs every timed note lasts from its own note
\* on to its own note off, the first one that follows for its pitch:
\* durationBeats = (off tick - on tick) / ticksPerBeat, ticks being summed
\* delta times.  When no pitch overlaps itself there is one timed note per
\* pair.  With 480 ticks per beat, note on 62 at tick 0 and note off at tick
\* 480 give exactly {note 62, startBeat 0, durationBeats 1}.
C20_PairDuration ==
  (extraction.done /\ MatchedPairsOnly) =>
    /\ \A n \in 1..Len(extraction.notesWithTiming) :
          LET t == extraction.notesWithTiming[n]
          IN \E i, j \in 1..Len(track) :
                /\ i < j /\ StartsNote(i) /\ EndsNote(j)
                /\ track[i].note = t.note /\ track[j].note = t.note
                /\ ~\E m \in (i + 1)..(j - 1) : EndsNote(m) /\ track[m].note = t.note
                /\ t.startTime * TicksPerBeat = 2 * TickAt(i)
                /\ t.duration * TicksPerBeat = 2 * (TickAt(j) - TickAt(i))
    /\ NoOverlap =>
          Len(extraction.notesWithTiming)
            = Cardinality({i \in 1..Len(track) : StartsNote(i)})
    /\ track = <<NoteOnEvent(62, 100, 0), NoteOffEvent(62, 480)>> =>
          extraction.notesWithTiming = <<[note |-> 62, startTime |-> 0, duration |-> 2]>>

\* Two pairs one after the other, the second ended by a note on with velocity
\* 0 for the same pitch: two timed notes of one beat each.
C20_Witness ==
  /\ extraction.done
  /\ track = <<NoteOnEvent(62, 100, 0), NoteOffEvent(62, 480),
               NoteOnEvent(62, 100, 480), NoteOnEvent(62, 0, 480)>>
  /\ extraction.notes = <<62, 62>>
  /\ extraction.notesWithTiming =
       <<[note |-> 62, startTime |-> 0, duration |-> 2],
         [note |-> 62, startTime |-> 4, duration |-> 2]>>

\* The index names a track of the file being decoded.
ValidIndex(trackIndex) == trackIndex >= 0 /\ trackIndex < Len(midiFile.track)

\* C21: an extraction of a track of a readable file fails with the
\* track-index-out-of-range error exactly when the index is not one of
\* 0..trackCount-1, be it too large or negative.
C21_TrackIndexError ==
  (call # NoCall /\ midiFile.readable) =>
    (call.result.error = "TrackIndexNotFound" <=> ~ValidIndex(call.trackIndex))

\* A step in which a decode or a track extraction failed.
FailedDecode ==
  \E file \in UploadFiles : Upload(file, TRUE) /\ ~parseMIDIFile(file).ok
FailedCreate ==
  \E reads \in BOOLEAN :
    /\ CreateSong(reads)
    /\ ~reads \/ extractNotesFromTrack(originalFile, selectedTrackIndex).error # "none"
FailedChange ==
  \E k \in 1..MaxSongs, newTrack \in 0..1 :
    /\ ChangeTrack(k, newTrack)
    /\ ExtractFromArrayBuffer(midiSongs[k].fileData, newTrack).error # "none"

\* C22: a failed decode or a failed track extraction is never partially
\* applied: no song is created, and every song of the library, the selected
\* song and the file already parsed in the uploader stay exactly as they were.
C22_NoPartialApply ==
  [][(FailedDecode \/ FailedCreate \/ FailedChange) =>
       UNCHANGED <<midiSongs, selectedSong, parsedFile, originalFile,
                   selectedTrackIndex>>]_vars

\* A decode failed while a parsed file and a selected song were there.
C22_Witness ==
  /\ uploadError = "Failed to parse MIDI file"
  /\ parsedFile.ok
  /\ selectedSong # NoSong

\* The Set Tempo events of a track with their positions in ticks, the
\* cumulative delta time up to and including the event.
RECURSIVE TempoPositions(_, _)
TempoPositions(events, tick) ==
  IF events = <<>> THEN <<>>
  ELSE LET at == tick + Head(events).deltaTime
       IN (IF IsSetTempo(Head(events))
           THEN <<[tick |-> at, bpm |-> TempoOf(Head(events).us)]>>
           ELSE <<>>) \o TempoPositions(Tail(events), at)

RECURSIVE FileTempoPositions(_)
FileTempoPositions(tracks) ==
  IF tracks = <<>> THEN <<>>
  ELSE TempoPositions(Head(tracks), 0) \o FileTempoPositions(Tail(tracks))

Occurrences(s, x) == Cardinality({ i \in 1..Len(s) : s[i] = x })

\* C23: for a file with several tempo events the decode records one
\* (tick, bpm) pair per event, tick being the position of the event in ticks
\* within the file, and the pairs are in ascending order of tick.
C23_TempoMap ==
  LET events == FileTempoPositions(midiFile.track)
      pairs == decoded.tempoChanges
  IN (decoded.ok /\ Len(events) > 1) =>
       /\ Len(pairs) = Len(events)
       /\ \A i \in 1..Len(events) :
            Occurrences(pairs, events[i]) = Occurrences(events, events[i])
       /\ \A i \in 1..(Len(pairs) - 1) : pairs[i].tick <= pairs[i + 1].tick

\* The cumulative delta time of a track.
RECURSIVE SumDeltaTime(_)
SumDeltaTime(events) ==
  IF events = <<>> THEN 0 ELSE Head(events).deltaTime + SumDeltaTime(Tail(events))

\* C24: the decode's totalTicks is the maximum over all tracks of the
\* cumulative delta time of the track, and durationInSeconds is
\* (totalTicks / ticksPerBeat) * (60 / firstTempoBpm).
C24_Duration ==
  decoded.ok =>
    /\ decoded.totalTicks =
         Maximum({ SumDeltaTime(midiFile.track[i]) : i \in 1..Len(midiFile.track) })
    /\ decoded.durationInSeconds.num
         * (decoded.ticksPerBeat * decoded.tempoChanges[1].bpm)
       = decoded.durationInSeconds.den * (decoded.totalTicks * 60)

\* C25: for every standard instrument tag, with range {MIN, MAX}, the range
\* test is inclusive: it holds of MIN and of MAX, and fails for MIN - 1 when
\* MIN > 0.
C25_InclusiveRange ==
  selectedInstrument \in StandardInstruments =>
    LET range == instrumentRanges[selectedInstrument]
    IN /\ InCurrentRange(range.MIN)
       /\ InCurrentRange(range.MAX)
       /\ range.MIN > 0 => ~InCurrentRange(range.MIN - 1)

\* A standard instrument other than the tin whistle is selected and its
\* range starts above note 0 and holds one note only.
C25_Witness ==
  /\ selectedInstrument = "flute"
  /\ instrumentRanges["flute"] = Range(55, 55)

\* The note lies outside the range of the instrument selected now.
OutsideRange(note) ==
  note < getCurrentInstrumentRange.MIN \/ note > getCurrentInstrumentRange.MAX

\* C30: a NoteOn outside the range of the selected instrument is discarded
\* before the matcher: it records neither Correct nor Incorrect, changes
\* neither the index nor the target, and schedules no auto-recovery.
C30_OutOfRangeDiscarded ==
  [][\A note \in InputNotes :
       (NoteOn(note) /\ OutsideRange(note)) =>
         UNCHANGED <<matcher, showCompletionMessage, timers>>]_vars

\* A note below the range arrived while a target was awaited, after an
\* incorrect note whose auto-recovery is still pending.
C30_Witness ==
  /\ lastInput = "noteon"
  /\ currentTargetNote = 62
  /\ lastPlayedNote = 63
  /\ wrongAt = NoWrong
  /\ \E i \in 1..Len(timers) : timers[i].kind = "autoRecovery"

\* C26: the fingering lookup gives none for every note that is not a key of
\* the fingering table, and every component shows such a note as outside the
\* supported range: none draws a fingering for it.
C26_NoGuessedFingering ==
  /\ \A note \in ChartNotes :
       note \notin DOMAIN TIN_WHISTLE_FINGERINGS => FingeringOf(note) = NoFingering
  /\ \A i \in 1..Len(rendered.panels) :
       rendered.panels[i].note \notin DOMAIN TIN_WHISTLE_FINGERINGS =>
         rendered.panels[i].view = "notInRange"

----------------------------------------------------------------------------
(* MIDI preview *)

Skips == {-SKIP_TENTHS, SKIP_TENTHS}

\* C27: a seek by deltaSeconds sets the position to current + deltaSeconds held
\* within [0, totalDuration]; after any seek, playing or not,
\* 0 <= position <= totalDuration.
C27_SeekClamped ==
  [][\A seconds \in Skips :
       SkipTime(seconds) =>
         /\ currentTime' = (IF currentTime + seconds < 0 THEN 0
                            ELSE IF currentTime + seconds > totalDuration'
                                 THEN totalDuration'
                                 ELSE currentTime + seconds)
         /\ 0 <= currentTime' /\ currentTime' <= totalDuration']_vars

\* A skip back, while playing, landed inside the track, at neither end.
C27_Witness ==
  /\ tones.by = "skip" /\ isPlaying
  /\ 0 < currentTime /\ currentTime < totalDuration

\* C28: stopping or seeking leaves no callback of before behind: a callback
\* scheduled before the stop or seek does not alter the set of scheduled notes
\* when it fires.
C28_NoStaleCallback ==
  [][FireDelete /\ Head(deleteTimers).stale => scheduledNotes' = scheduledNotes]_vars

\* C29: the frame in which the position reaches totalDuration stops the driver:
\* not playing, position = totalDuration, no further frame requested; and while
\* the driver is not playing no frame is pending, so no frame moves the position.
C29_StopsAtEnd ==
  /\ [][Animate /\ isPlayingRef /\ pausedTimeRef + elapsed >= totalDuration =>
          /\ ~isPlaying' /\ ~isPlayingRef'
          /\ currentTime' = totalDuration
          /\ ~animationFrame']_vars
  /\ [](~isPlayingRef => ~animationFrame)
  /\ [][Animate /\ ~isPlayingRef => currentTime' = currentTime]_vars

\* Playback ran into the end of a track and stopped there.
C29_Witness ==
  /\ tones.by = "animate" /\ ~isPlaying /\ ~isPlayingRef /\ ~animationFrame
  /\ totalDuration > 0 /\ currentTime = totalDuration

----------------------------------------------------------------------------
(* The selected song and the session *)

\* A session is active on the selected song.
ActiveOnSelected ==
  /\ selectedSong # NoSong
  /\ currentTargetNote # NULL
  /\ practiceSequence = selectedSong.notes

\* C31: when the selected song changes while a session is active on it, the
\* session is destroyed: afterwards the matcher holds no target and no sequence.
C31_SongChangeEndsSession ==
  [][ActiveOnSelected /\ selectedSong'.id # selectedSong.id =>
       currentTargetNote' = NULL /\ practiceSequence' = <<>>]_vars

----------------------------------------------------------------------------
(* The custom range *)

\* C32: after any edits of the custom range and any instrument selection the
\* range used for filtering satisfies 0 <= min <= max <= 127.
C32_ValidRange ==
  LET range == getCurrentInstrumentRange
  IN 0 <= range.MIN /\ range.MIN <= range.MAX /\ range.MAX <= 127

----------------------------------------------------------------------------
(* The timed notes of a track *)

\* C33: every timed note the extraction returns has a note number in 0..127, a
\* start of at least 0 beats and a duration strictly greater than 0 beats.
C33_TimedNoteShape ==
  extraction.done =>
    \A n \in 1..Len(extraction.notesWithTiming) :
       LET t == extraction.notesWithTiming[n]
       IN t.note \in 0..127 /\ t.startTime >= 0 /\ t.duration > 0

----------------------------------------------------------------------------
(* Preview tones *)

\* The notes marked in this pass whose own delete callback is still pending.
MarkedInPass ==
  { deleteTimers[i].noteId : i \in { j \in 1..Len(deleteTimers) : ~deleteTimers[j].stale } }

\* C34: within one pass of playback a note that has been marked as scheduled
\* is not triggered again by a later frame.
C34_TriggeredOnce ==
  [][tones'.by = "animate" => tones'.noteIds \cap MarkedInPass = {}]_vars

----------------------------------------------------------------------------
(* The target and the index *)

\* C35: whenever a target note is set, the sequence is not empty, the index is
\* within it and the target is the note of the sequence at the index.
C35_TargetAtIndex ==
  currentTargetNote # NULL =>
    /\ Len(practiceSequence) > 0
    /\ 0 <= currentNoteIndex /\ currentNoteIndex < Len(practiceSequence)
    /\ currentTargetNote = At(practiceSequence, currentNoteIndex)

\* C36: while a session goes on, no NoteOn and no callback moves the index
\* backwards; only reset, stop and start do.
C36_IndexMonotone ==
  [][((\E note \in InputNotes : Receive(listener, note)) \/ RunCallback)
       /\ currentTargetNote # NULL /\ currentTargetNote' # NULL
       => currentNoteIndex' >= currentNoteIndex]_vars

----------------------------------------------------------------------------
(* The completion signal *)

\* The completion callbacks among the pending callbacks.
Completions(ts) == Cardinality({ i \in 1..Len(ts) : ts[i].kind = "hideCompletion" })

\* The step emits the completion signal: showPracticeCompletion schedules the
\* callback that hides the message.
EmitsCompletion == Completions(timers') > Completions(timers)

\* C37: a started session emits the completion signal at most once.
C37_CompletionOnce ==
  [][EmitsCompletion /\ session' = Emitted(session) => ~session.emitted]_vars

----------------------------------------------------------------------------
(* Callbacks of an earlier session *)

\* C38: a callback scheduled before start() changes neither the index, the
\* target, the sequence nor the feedback of the session start() began.  While
\* start is the last input, every pending callback was scheduled before it.
C38_NoEarlierTimer ==
  [][lastInput = "start" /\ RunCallback =>
       UNCHANGED <<currentNoteIndex, currentTargetNote, practiceSequence,
                   isCorrectNote>>]_vars

----------------------------------------------------------------------------
(* Feedback *)

\* C39: the result of a note stays until the delay of its own event is over.
\* An Incorrect result schedules no clear-feedback callback, so a
\* clear-feedback callback that fires while the Incorrect result of the last
\* note awaits its auto-recovery belongs to an earlier note: it does not clear
\* the result.
C39_OwnDelay ==
  [][/\ RunCallback /\ Head(timers).kind = "clearFeedback"
     /\ wrongAt # NoWrong /\ ~wrongAt.done /\ isCorrectNote = "false"
     => isCorrectNote' = "false"]_vars

----------------------------------------------------------------------------
(* The two extractions *)

\* C40: for the same file and the same track index of the file, the extraction
\* from the file and the extraction from the bytes return the same notes, the
\* same tempo and the same timed notes.
C40_SameExtraction ==
  (call # NoCall /\ midiFile.readable /\ ValidIndex(call.trackIndex)) =>
    LET fromFile == extractNotesFromTrack(midiFile, call.trackIndex)
        fromBuffer == ExtractFromArrayBuffer(midiFile, call.trackIndex)
    IN /\ call.result \in {fromFile, fromBuffer}
       /\ fromFile.notes = fromBuffer.notes
       /\ fromFile.tempo = fromBuffer.tempo
       /\ fromFile.notesWithTiming = fromBuffer.notesWithTiming
====
